---- MODULE Spec2Model ----
(***************************************************************************)
(* Reconciliation and idempotency engine of the payments backend            *)
(* (PaymentsController + PaymentsService + Payment entity).                 *)
(*                                                                          *)
(* The ledger is the payments table with its four indexes, the user table   *)
(* carries plan / plan_expiry, and the payment gateway is an environment    *)
(* that holds the authoritative state of every order.  Every handler is     *)
(* split at its awaits on the store or on the gateway: one action per       *)
(* store / gateway interaction, so that concurrent requests interleave      *)
(* exactly where the Node.js event loop lets them interleave.               *)
(***************************************************************************)
EXTENDS Integers, Sequences, FiniteSets, TLC

(* ---------------------------------------------------------------------- *)
(* Bounds                                                                   *)
(* ---------------------------------------------------------------------- *)
MaxOps == 4
MaxRaceOps == 3
MaxClock == 1

(* ---------------------------------------------------------------------- *)
(* Value universes                                                          *)
(* ---------------------------------------------------------------------- *)
Procs == {1, 2}
Users == {1, 2}
Orders == {"X1", "X2"}
NoUser == 0
NoTime == -1
NoOrder == "none"
NoCapture == "none"
NoToken == ""
NullStr == "NULL"
NoRaw == -2
TickSeconds == 60
Days30 == 2592000
Days365 == 31536000
(* an amount that is absent (null or undefined) *)
NoAmount == -1

CaptureIdOf(o) == IF o = "X1" THEN "Y1" ELSE IF o = "X2" THEN "Y2" ELSE NoCapture

PlanInputs == {"Pro"}
BillingInputs == {"monthly", ""}
AmountInputs == {0}
TokenInputs == {NoToken, "t1"}
CreatedAtInputs == {NoTime, 10}
GatewayAmounts == {1299}
GatewayRefs == {NoToken, "t1"}

pendingStatuses == {"pending", "created", "pending_capture", "authorized"}
finalStatuses == {"completed", "captured", "succeeded", "paid"}
TerminalStatuses == finalStatuses \cup {"denied", "cancelled"}

(* String.toLowerCase() on the statuses the gateway reports and on plans *)
toLowerCase(s) ==
  CASE s = "COMPLETED" -> "completed"
    [] s = "DENIED" -> "denied"
    [] s = "APPROVED" -> "approved"
    [] s = "CREATED" -> "created"
    [] s = "PENDING" -> "pending"
    [] s = "Free" -> "free"
    [] s = "Pro" -> "pro"
    [] OTHER -> s

(* Date.setSeconds(0, 0): truncate a timestamp (in seconds) to its minute *)
setSeconds0(t) == t - (t % 60)

(* mapPlanPrice: amounts are kept in cents *)
mapPlanPrice(plan, billingPeriod) ==
  IF plan = "Pro" THEN (IF billingPeriod = "yearly" THEN 9900 ELSE 1299)
  ELSE IF plan = "Tutor" THEN (IF billingPeriod = "yearly" THEN 19900 ELSE 2499)
  ELSE 0

(* billing === "" ? null : billing *)
billingColumn(billing) == IF billing = "" THEN NullStr ELSE billing

VARIABLES rows, nextId, users, gw, proc, now, nops
vars == <<rows, nextId, users, gw, proc, now, nops>>

(* ---------------------------------------------------------------------- *)
(* Records                                                                  *)
(* ---------------------------------------------------------------------- *)
NoRow == [id |-> 0, user_id |-> NoUser, plan |-> NullStr, billing |-> NullStr,
          amount |-> 0, orderId |-> NoOrder, captureId |-> NoCapture,
          status |-> "pending", token |-> NoToken, createdAt |-> NoTime,
          minute |-> NoTime, metaCreated |-> NoTime,
          payerEmail |-> FALSE, rawId |-> NoOrder]

NoG == [status |-> "NONE", amount |-> 0, time |-> NoTime, ref |-> NoToken]

(* AccessInfo before any answer *)
NoAccess == [allowed |-> FALSE, activeSubscription |-> FALSE,
             hasSuccessfulPayment |-> FALSE, reason |-> "none",
             pendingAmount |-> NoAmount]

(* a user entity before it is read *)
NoUserRow == [plan |-> NullStr, expiry |-> NoTime]

IdleProc == [op |-> "idle", pc |-> "done", uid |-> NoUser, plan |-> NullStr,
             billing |-> NullStr, amount |-> 0, token |-> NoToken,
             cAt |-> NoTime, order |-> NoOrder, target |-> 0, raw |-> NoRaw,
             snap |-> NoRow, g |-> NoG, res |-> "none", err |-> "none",
             ret |-> 0, prev |-> "none", access |-> NoAccess,
             user |-> NoUserRow]

(* ---------------------------------------------------------------------- *)
(* Ledger store: the payments table and its unique indexes                  *)
(* ---------------------------------------------------------------------- *)
RowById(id) == CHOOSE r \in rows : r.id = id
HasRow(id) == \E r \in rows : r.id = id

(* ux_payments_paypal_order_id: NULLs never collide *)
uxOrderOk(r, others) ==
  r.orderId # NoOrder => \A q \in others : q.orderId # r.orderId

(* a store without the unique index on the capture id *)
uxCaptureOff(r, others) == TRUE

(* ux_payments_paypal_capture_id *)
uxCaptureOk(r, others) ==
  r.captureId # NoCapture => \A q \in others : q.captureId # r.captureId

(* ux_payments_user_plan_minute: a full (not partial) unique index on
   (user_id, plan, billing_period, created_at_minute); a NULL in any of the
   four columns makes the tuple distinct from every other tuple *)
uxUserPlanMinuteOk(r, others) ==
  (r.user_id # NoUser /\ r.plan # NullStr /\ r.billing # NullStr /\ r.minute # NoTime)
    => \A q \in others :
         ~(q.user_id = r.user_id /\ q.plan = r.plan
           /\ q.billing = r.billing /\ q.minute = r.minute)

(* a store that enforces no unique index at all *)
UniqueOff(r, others) == TRUE

UniqueOk(r, others) ==
  uxOrderOk(r, others) /\ uxCaptureOk(r, others) /\ uxUserPlanMinuteOk(r, others)

(* ORDER BY created_at DESC LIMIT 1: any of the rows with the greatest
   created_at (ties are broken by the store) *)
Latest(S) == {r \in S : \A q \in S : q.createdAt <= r.createdAt}

(* repository.save(entity): the row with the entity's id is overwritten by
   the in-memory entity (insert when the row is gone) *)
SaveOk(e) == UniqueOk(e, {q \in rows : q.id # e.id})
Saved(e) == {q \in rows : q.id # e.id} \cup {e}

(* ---------------------------------------------------------------------- *)
(* Initial state                                                            *)
(* ---------------------------------------------------------------------- *)
Init ==
  /\ rows = {}
  /\ nextId = 1
  /\ users = [u \in Users |-> [plan |-> "Free", expiry |-> NoTime]]
  /\ gw = [o \in Orders |-> NoG]
  /\ proc = [p \in Procs |-> IdleProc]
  /\ now = 0
  /\ nops = 0

(* a finished request keeps what its caller sees: its outcome *)
Done(q, res, err, ret) ==
  [IdleProc EXCEPT !.op = q.op, !.res = res, !.err = err, !.ret = ret]

Finish(p, res, err, ret) == [proc EXCEPT ![p] = Done(proc[p], res, err, ret)]

(* requests are interchangeable: a new one takes the first free slot *)
CanStart(p) ==
  /\ proc[p].pc = "done"
  /\ nops < MaxOps
  /\ \A q \in Procs : q < p => proc[q].pc # "done"

(* the server clock *)
Tick ==
  /\ now < MaxClock * TickSeconds
  /\ now' = now + TickSeconds
  /\ UNCHANGED <<rows, nextId, users, gw, proc, nops>>

(* ---------------------------------------------------------------------- *)
(* findExistingPending                                                      *)
(* ---------------------------------------------------------------------- *)
ExistingPending(uid, planName, billing, createdIso) ==
  Latest({r \in rows :
            /\ r.user_id = uid
            /\ r.plan = planName
            /\ r.status \in pendingStatuses
            /\ r.minute = setSeconds0(createdIso)
            /\ r.billing = billingColumn(billing)})


(* ---------------------------------------------------------------------- *)
(* POST create-pending: PaymentsController.createPending followed by        *)
(* PaymentsService.createPendingPayment                                     *)
(* ---------------------------------------------------------------------- *)

(* the client_temp_id index is declared { unique: false }, so the statement
   INSERT ... ON CONFLICT (client_temp_id) has no arbiter index to use *)
ClientTempIdUnique == FALSE

(* amount given by the client, else the plan's price *)
priceOf(planName, billing, amount) ==
  IF amount # 0 THEN amount ELSE mapPlanPrice(planName, billing)

(* controller: findExistingPending, then the call of createPendingPayment,
   which fixes nowIso before its first await *)
StartCreatePending(p, uid, planName, billing, amount, token, createdAt) ==
  LET cAt == IF createdAt = NoTime THEN now ELSE createdAt
      S == ExistingPending(uid, planName, billing, cAt)
      base == [IdleProc EXCEPT !.op = "createPending", !.uid = uid,
                 !.plan = planName, !.billing = billing,
                 !.amount = priceOf(planName, billing, amount),
                 !.token = token, !.cAt = cAt]
  IN /\ CanStart(p)
     /\ nops' = nops + 1
     /\ IF S # {}
          THEN \E r \in S :
                 proc' = [proc EXCEPT ![p] =
                   Done(base, "200", "none", r.id)]
          ELSE proc' = [proc EXCEPT ![p] =
                   [base EXCEPT !.pc = IF token # NoToken THEN "cp_upsert" ELSE "cp_find2"]]
     /\ UNCHANGED <<rows, nextId, users, gw, now>>

NewPendingRow(q) ==
  [NoRow EXCEPT !.id = nextId, !.user_id = q.uid, !.plan = q.plan,
     !.billing = billingColumn(q.billing), !.amount = q.amount,
     !.status = "pending", !.token = q.token, !.createdAt = q.cAt,
     !.minute = setSeconds0(q.cAt), !.metaCreated = q.cAt]

(* INSERT ... ON CONFLICT (client_temp_id) DO UPDATE SET updated_at *)
CpUpsert(p) ==
  LET q == proc[p]
      hit == {r \in rows : r.token = q.token}
      r0 == NewPendingRow(q)
  IN /\ q.op = "createPending" /\ q.pc = "cp_upsert"
     /\ IF ~ClientTempIdUnique
          THEN /\ proc' = [proc EXCEPT ![p].pc = "cp_find2"]
               /\ UNCHANGED <<rows, nextId>>
          ELSE IF hit # {}
            THEN /\ \E r \in hit : proc' = Finish(p, "200", "none", r.id)
                 /\ UNCHANGED <<rows, nextId>>
            ELSE IF UniqueOk(r0, rows)
              THEN /\ rows' = rows \cup {r0}
                   /\ nextId' = nextId + 1
                   /\ proc' = Finish(p, "200", "none", r0.id)
              ELSE /\ proc' = [proc EXCEPT ![p].pc = "cp_find2"]
                   /\ UNCHANGED <<rows, nextId>>
     /\ UNCHANGED <<users, gw, now, nops>>

(* service: findExistingPending before the insert *)
CpFind2(p) ==
  LET q == proc[p]
      S == ExistingPending(q.uid, q.plan, q.billing, q.cAt)
  IN /\ q.op = "createPending" /\ q.pc = "cp_find2"
     /\ IF S # {}
          THEN \E r \in S : proc' = Finish(p, "200", "none", r.id)
          ELSE proc' = [proc EXCEPT ![p].pc = "cp_insert"]
     /\ UNCHANGED <<rows, nextId, users, gw, now, nops>>

(* the insert; a 23505 unique violation leads to the duplicate handling *)
CpInsert(p) ==
  LET q == proc[p]
      r0 == NewPendingRow(q)
  IN /\ q.op = "createPending" /\ q.pc = "cp_insert"
     /\ IF UniqueOk(r0, rows)
          THEN /\ rows' = rows \cup {r0}
               /\ nextId' = nextId + 1
               /\ proc' = [proc EXCEPT ![p].pc = "cp_reread", ![p].snap = r0]
          ELSE /\ proc' = [proc EXCEPT ![p].pc = "cp_dup"]
               /\ UNCHANGED <<rows, nextId>>
     /\ UNCHANGED <<users, gw, now, nops>>

(* the re-read of the inserted row by its id; the answer is the row read or,
   when it is gone, the row as inserted: the same id either way *)
CpReread(p) ==
  LET q == proc[p]
  IN /\ q.op = "createPending" /\ q.pc = "cp_reread"
     /\ proc' = Finish(p, "200", "none", q.snap.id)
     /\ UNCHANGED <<rows, nextId, users, gw, now, nops>>

(* duplicate handling: the pending row of the same bucket *)
DupPending(q) ==
  Latest({r \in rows :
            /\ r.user_id = q.uid
            /\ r.plan = q.plan
            /\ r.status = "pending"
            /\ r.minute = setSeconds0(q.cAt)
            /\ r.billing = billingColumn(q.billing)})

CpDup(p) ==
  LET q == proc[p]
      S == DupPending(q)
  IN /\ q.op = "createPending" /\ q.pc = "cp_dup"
     /\ IF S # {}
          THEN \E r \in S : proc' = Finish(p, "200", "none", r.id)
          ELSE proc' = [proc EXCEPT ![p].pc = "cp_fallback"]
     /\ UNCHANGED <<rows, nextId, users, gw, now, nops>>

(* last resort: the user's latest row of that plan, else HTTP 500 *)
CpFallback(p) ==
  LET q == proc[p]
      S == Latest({r \in rows : r.user_id = q.uid /\ r.plan = q.plan})
  IN /\ q.op = "createPending" /\ q.pc = "cp_fallback"
     /\ IF S # {}
          THEN \E r \in S : proc' = Finish(p, "200", "none", r.id)
          ELSE proc' = Finish(p, "500", "unique", 0)
     /\ UNCHANGED <<rows, nextId, users, gw, now, nops>>


(* ---------------------------------------------------------------------- *)
(* The payment gateway (createOrderOnPayPal, captureOrderOnPayPal,          *)
(* getOrderOnPayPal and the buyer's side of the checkout)                   *)
(* ---------------------------------------------------------------------- *)
Captured(g) == g.status \in {"COMPLETED", "DENIED"}

(* the order as the gateway reports it: captures[0] exists once captured *)
gwCaptureId(o, g) == IF Captured(g) THEN CaptureIdOf(o) ELSE NoCapture
(* cap?.create_time ?? order?.create_time: the field time holds the order's
   create_time until the capture, the capture's create_time afterwards *)
gwTime(g) == g.time
(* order?.payer?.email_address: the order names its payer once a buyer has
   approved it *)
gwPayerEmail(g) == g.status \in {"APPROVED", "COMPLETED", "DENIED"}
(* the id property of the order object that is stored as raw *)
gwRawId(o, g) == IF g.status \in {"CREATED", "APPROVED", "COMPLETED", "DENIED"}
                   THEN o ELSE NoOrder

(* What happens at the gateway between two calls of the server is seen by
   the server only at its next call, so the buyer's steps are taken at the
   call that observes them: the browser creates (and the buyer approves) an
   order through the gateway's SDK, the buyer approves an order made by
   createOrder, the browser captures an approved order.  Each step carries a
   gateway time between the order's last time and the server's present. *)
GwTimes(from) == {t \in 0..now : t % TickSeconds = 0 /\ t >= from}

GwStep(g) ==
  IF g.status = "NONE"
    THEN {[status |-> "APPROVED", amount |-> a, time |-> t, ref |-> r] :
            a \in GatewayAmounts, t \in GwTimes(0), r \in GatewayRefs}
  ELSE IF g.status = "CREATED"
    THEN {[g EXCEPT !.status = "APPROVED"]}
  ELSE IF g.status = "APPROVED"
    THEN {[g EXCEPT !.status = st, !.time = t] :
            st \in {"COMPLETED", "DENIED"}, t \in GwTimes(g.time)}
  ELSE {}

GwReach(g) ==
  LET s1 == {g} \cup GwStep(g)
      s2 == s1 \cup UNION {GwStep(h) : h \in s1}
  IN s2 \cup UNION {GwStep(h) : h \in s2}

(* ---------------------------------------------------------------------- *)
(* POST create-order: PaymentsService.createOrder                           *)
(* ---------------------------------------------------------------------- *)
StartCreateOrder(p, uid, planName, billing) ==
  LET S == Latest({r \in rows : r.user_id = uid /\ r.plan = planName
                                  /\ r.status \in pendingStatuses})
      base == [IdleProc EXCEPT !.op = "createOrder", !.uid = uid,
                 !.plan = planName, !.billing = billing,
                 !.amount = mapPlanPrice(planName, billing)]
  IN /\ CanStart(p)
     /\ nops' = nops + 1
     /\ IF mapPlanPrice(planName, billing) <= 0
          THEN proc' = [proc EXCEPT ![p] =
                 Done(base, "400", "badrequest", 0)]
          ELSE \/ \E r \in S :
                    /\ r.orderId # NoOrder
                    /\ proc' = [proc EXCEPT ![p] =
                         Done([base EXCEPT !.order = r.orderId], "200", "none", r.id)]
               \/ /\ \/ S = {}
                     \/ \E r \in S : r.orderId = NoOrder
                  /\ proc' = [proc EXCEPT ![p] = [base EXCEPT !.pc = "co_gw"]]
     /\ UNCHANGED <<rows, nextId, users, gw, now>>

(* createOrderOnPayPal: a fresh order id, or a failure of the call *)
CoGateway(p) ==
  LET q == proc[p]
  IN /\ q.op = "createOrder" /\ q.pc = "co_gw"
     /\ \/ \E o \in Orders :
             /\ gw[o].status = "NONE"
             /\ gw' = [gw EXCEPT ![o] = [status |-> "CREATED", amount |-> q.amount,
                                          time |-> now, ref |-> NoToken]]
             /\ proc' = [proc EXCEPT ![p].pc = "co_user", ![p].order = o]
        \/ /\ proc' = Finish(p, "500", "gateway", 0)
           /\ UNCHANGED gw
     /\ UNCHANGED <<rows, nextId, users, now, nops>>

(* userRepo.findOne for the reason recorded in raw (regular or change of
   plan); the time of the new row is taken when the lookup returns *)
CoUser(p) ==
  LET q == proc[p]
  IN /\ q.op = "createOrder" /\ q.pc = "co_user"
     /\ proc' = [proc EXCEPT ![p].pc = "co_insert", ![p].cAt = now]
     /\ UNCHANGED <<rows, nextId, users, gw, now, nops>>

(* the insert; the row in memory then gets __meta.createdAt, the time at
   which the insert returned *)
CoInsert(p) ==
  LET q == proc[p]
      r0 == [NoRow EXCEPT !.id = nextId, !.user_id = q.uid, !.plan = q.plan,
               !.billing = q.billing, !.amount = q.amount, !.orderId = q.order,
               !.status = "pending", !.createdAt = q.cAt,
               !.minute = setSeconds0(q.cAt)]
  IN /\ q.op = "createOrder" /\ q.pc = "co_insert"
     /\ IF UniqueOk(r0, rows)
          THEN /\ rows' = rows \cup {r0}
               /\ nextId' = nextId + 1
               /\ proc' = [proc EXCEPT ![p].pc = "co_save",
                                        ![p].snap = [r0 EXCEPT !.metaCreated = now]]
          ELSE /\ proc' = Finish(p, "500", "unique", 0)
               /\ UNCHANGED <<rows, nextId>>
     /\ UNCHANGED <<users, gw, now, nops>>

(* paymentRepo.save(saved) on the raw (snake_case) row: only the properties
   the entity knows under the same name are written back - user_id, plan,
   amount, status and raw. The raw column is written whole: it becomes
   {__meta: ...}, which names no id and whose createdAt is the time at which
   the insert returned (saved.createdAt being undefined on a raw row); errors
   are ignored *)
CoSaveEntity(e, cur) ==
  [cur EXCEPT !.user_id = e.user_id, !.plan = e.plan, !.amount = e.amount,
              !.status = e.status, !.metaCreated = e.metaCreated,
              !.rawId = NoOrder]

(* save() inserts when the row of that id is gone: the columns the raw row
   does not name for the entity are NULL, created_at takes its default *)
CoSave(p) ==
  LET q == proc[p]
      cur == IF HasRow(q.snap.id) THEN RowById(q.snap.id)
             ELSE [NoRow EXCEPT !.id = q.snap.id, !.createdAt = now]
  IN /\ q.op = "createOrder" /\ q.pc = "co_save"
     /\ IF SaveOk(CoSaveEntity(q.snap, cur))
          THEN rows' = Saved(CoSaveEntity(q.snap, cur))
          ELSE UNCHANGED rows
     /\ proc' = Finish(p, "200", "none", q.snap.id)
     /\ UNCHANGED <<nextId, users, gw, now, nops>>

(* ---------------------------------------------------------------------- *)
(* POST attach-order: PaymentsController.attachOrder and                    *)
(* PaymentsService.attachOrderToPayment                                     *)
(* ---------------------------------------------------------------------- *)

(* the entity after the in-memory assignments of attachOrderToPayment; raw is
   NoRaw (no raw sent), NoTime (raw without __meta.createdAt) or the
   __meta.createdAt the raw carries *)
AttachedEntity(r, orderID, raw) ==
  LET meta == IF raw = NoRaw THEN r.metaCreated ELSE raw
      rid == IF raw = NoRaw THEN r.rawId ELSE NoOrder
  IN IF meta # NoTime
       THEN [r EXCEPT !.orderId = orderID, !.metaCreated = meta, !.rawId = rid,
                      !.createdAt = meta, !.minute = setSeconds0(meta)]
       ELSE [r EXCEPT !.orderId = orderID, !.metaCreated = meta, !.rawId = rid]

(* every failure of the service is rethrown by the controller as HTTP 500 *)
StartAttachOrder(p, uid, paymentId, orderID, raw) ==
  LET base == [IdleProc EXCEPT !.op = "attachOrder", !.uid = uid,
                 !.target = paymentId, !.order = orderID, !.raw = raw]
  IN /\ CanStart(p)
     /\ nops' = nops + 1
     /\ IF ~HasRow(paymentId)
          THEN proc' = [proc EXCEPT ![p] =
                 Done(base, "500", "notfound", 0)]
          ELSE IF RowById(paymentId).user_id # uid
            THEN proc' = [proc EXCEPT ![p] =
                   Done(base, "500", "notfound", 0)]
            ELSE proc' = [proc EXCEPT ![p] =
                   [base EXCEPT !.pc = "ao_save",
                                !.snap = AttachedEntity(RowById(paymentId), orderID, raw)]]
     /\ UNCHANGED <<rows, nextId, users, gw, now>>

AoSave(p) ==
  LET q == proc[p]
  IN /\ q.op = "attachOrder" /\ q.pc = "ao_save"
     /\ IF SaveOk(q.snap)
          THEN /\ rows' = Saved(q.snap)
               /\ proc' = Finish(p, "200", "none", q.snap.id)
          ELSE /\ proc' = Finish(p, "500", "unique", 0)
               /\ UNCHANGED rows
     /\ UNCHANGED <<nextId, users, gw, now, nops>>

(* ---------------------------------------------------------------------- *)
(* POST attach-order-public: PaymentsService.attachOrderPublic              *)
(* ---------------------------------------------------------------------- *)

(* the pending row of the same minute and amount, newest first *)
PublicCandidate(minute, amt) ==
  Latest({r \in rows : r.minute = minute /\ r.amount = amt
                        /\ r.status \in pendingStatuses})

(* amt is raw.purchase_units[0].amount.value, 0 when the raw carries none or
   no raw is sent. raw is NoRaw (no raw sent), NoTime (a raw without
   __meta.createdAt) or the __meta.createdAt the raw carries. The time of the
   row is the request's createdAt, else the raw's, else the server's; a raw
   that is sent is stored as it is, and only without one the service writes
   its own __meta with that time *)
StartAttachPublic(p, orderID, amt, createdAt, token, raw) ==
  LET cAt == IF createdAt # NoTime THEN createdAt
             ELSE IF raw \notin {NoRaw, NoTime} THEN raw
             ELSE now
      S == PublicCandidate(setSeconds0(cAt), amt)
      meta == IF raw = NoRaw THEN cAt ELSE raw
      base == [IdleProc EXCEPT !.op = "attachPublic", !.order = orderID,
                 !.amount = amt, !.cAt = cAt, !.token = token, !.raw = meta]
  IN /\ CanStart(p)
     /\ nops' = nops + 1
     /\ \/ \E r \in S :
             /\ r.user_id # NoUser
             /\ proc' = [proc EXCEPT ![p] =
                  [base EXCEPT !.pc = "ap_save",
                     !.snap = [r EXCEPT !.orderId = orderID, !.metaCreated = meta,
                                        !.rawId = NoOrder]]]
        \/ /\ \/ S = {}
              \/ \E r \in S : r.user_id = NoUser
           /\ proc' = [proc EXCEPT ![p] = [base EXCEPT !.pc = "ap_insert"]]
     /\ UNCHANGED <<rows, nextId, users, gw, now>>

(* a failing save is caught and the insert is tried instead *)
ApSave(p) ==
  LET q == proc[p]
  IN /\ q.op = "attachPublic" /\ q.pc = "ap_save"
     /\ IF SaveOk(q.snap)
          THEN /\ rows' = Saved(q.snap)
               /\ proc' = Finish(p, "200", "none", q.snap.id)
          ELSE /\ proc' = [proc EXCEPT ![p].pc = "ap_insert"]
               /\ UNCHANGED rows
     /\ UNCHANGED <<nextId, users, gw, now, nops>>

ApInsert(p) ==
  LET q == proc[p]
      r0 == [NoRow EXCEPT !.id = nextId, !.plan = "Pro", !.amount = q.amount,
               !.orderId = q.order, !.status = "pending", !.token = q.token,
               !.createdAt = q.cAt, !.minute = setSeconds0(q.cAt),
               !.metaCreated = q.raw]
  IN /\ q.op = "attachPublic" /\ q.pc = "ap_insert"
     /\ IF UniqueOk(r0, rows)
          THEN /\ rows' = rows \cup {r0}
               /\ nextId' = nextId + 1
               /\ proc' = Finish(p, "200", "none", r0.id)
          ELSE /\ proc' = Finish(p, "500", "unique", 0)
               /\ UNCHANGED <<rows, nextId>>
     /\ UNCHANGED <<users, gw, now, nops>>


(* ---------------------------------------------------------------------- *)
(* Entitlement update (the plan / plan_expiry block of captureOrder and of  *)
(* handleWebhook): the user is read, changed in memory and saved           *)
(* ---------------------------------------------------------------------- *)
planExpiry(billingPeriod) ==
  LET billing == IF billingPeriod \in {NullStr, ""} THEN "monthly" ELSE billingPeriod
  IN IF billing = "monthly" THEN now + Days30
     ELSE IF billing = "yearly" THEN now + Days365
     ELSE NoTime

(* payment.plan || user.plan || "Pro" *)
planAfter(payment, user) ==
  IF payment.plan \notin {NullStr, ""} THEN payment.plan
  ELSE IF user.plan \notin {NullStr, ""} THEN user.plan
  ELSE "Pro"

(* the user entity that was read, after the in-memory assignments *)
UserAfter(user, payment) ==
  [plan |-> planAfter(payment, user), expiry |-> planExpiry(payment.billing)]

(* ---------------------------------------------------------------------- *)
(* POST capture: PaymentsService.captureOrder                               *)
(* ---------------------------------------------------------------------- *)

(* captureOrderOnPayPal: captures an approved order, reports the capture of
   an already captured one, fails otherwise; the call itself may fail *)
StartCapture(p, uid, orderID) ==
  LET base == [IdleProc EXCEPT !.op = "capture", !.uid = uid, !.order = orderID]
  IN /\ CanStart(p)
     /\ nops' = nops + 1
     /\ \E h \in GwReach(gw[orderID]) :
          \/ /\ h.status = "APPROVED"
             /\ \E st \in {"COMPLETED", "DENIED"} :
                  /\ gw' = [gw EXCEPT ![orderID] = [h EXCEPT !.status = st, !.time = now]]
                  /\ proc' = [proc EXCEPT ![p] =
                       [base EXCEPT !.pc = "cap_find", !.g = gw'[orderID]]]
          \/ /\ Captured(h)
             /\ gw' = [gw EXCEPT ![orderID] = h]
             /\ proc' = [proc EXCEPT ![p] = [base EXCEPT !.pc = "cap_find", !.g = h]]
          \/ /\ gw' = [gw EXCEPT ![orderID] = h]
             /\ proc' = [proc EXCEPT ![p] = Done(base, "500", "gateway", 0)]
     /\ UNCHANGED <<rows, nextId, users, now>>

(* a response of the gateway without captures, status, amount and times *)
NoStatus == ""
Malformed == [status |-> NoStatus, amount |-> NoAmount, time |-> NoTime, ref |-> NoToken]

(* capture?.status ?? captureResult?.status ?? "COMPLETED" *)
captureStatus(g) == IF g.status = NoStatus THEN "COMPLETED" ELSE g.status

(* Number(amountVal ?? payment.amount) *)
captureAmount(g, current) == IF g.amount = NoAmount THEN current ELSE g.amount

(* captureOrderOnPayPal answers with an object of unexpected shape *)
StartCaptureMalformed(p, uid, orderID) ==
  /\ CanStart(p)
  /\ nops' = nops + 1
  /\ proc' = [proc EXCEPT ![p] =
       [IdleProc EXCEPT !.op = "capture", !.uid = uid, !.order = orderID,
                        !.pc = "cap_find", !.g = Malformed]]
  /\ UNCHANGED <<rows, nextId, users, gw, now>>

(* an update branch that forgets the capture id *)
CapturedEntityNoCaptureId(r, orderID, g) ==
  [r EXCEPT !.status = toLowerCase(captureStatus(g)),
            !.amount = captureAmount(g, r.amount),
            !.payerEmail = gwPayerEmail(g) \/ r.payerEmail,
            !.rawId = gwRawId(orderID, g), !.metaCreated = NoTime]

(* the update branch of captureOrder: capture id, status and amount, the
   payer's e-mail address, and the capture result as the whole of raw (the
   __meta of the row is gone) *)
CapturedEntity(r, orderID, g) ==
  [r EXCEPT !.captureId = IF gwCaptureId(orderID, g) # NoCapture
                            THEN gwCaptureId(orderID, g) ELSE r.captureId,
            !.status = toLowerCase(captureStatus(g)),
            !.amount = captureAmount(g, r.amount),
            !.payerEmail = gwPayerEmail(g) \/ r.payerEmail,
            !.rawId = gwRawId(orderID, g), !.metaCreated = NoTime]

(* a capture that hands the located row to its caller *)
CapFoundTakesOwnership(p, r) ==
  [proc EXCEPT ![p].pc = "cap_save", ![p].prev = r.status,
               ![p].snap = [CapturedEntity(r, proc[p].order, proc[p].g)
                              EXCEPT !.user_id = proc[p].uid]]

(* prev keeps payment.status as it was loaded, before the assignment *)
CapFound(p, r) ==
  [proc EXCEPT ![p].pc = "cap_save", ![p].prev = r.status,
               ![p].snap = CapturedEntity(r, proc[p].order, proc[p].g)]

(* paymentRepo.findOne({ paypalOrderId: orderID }) *)
CapFind(p) ==
  LET q == proc[p]
      S == {r \in rows : r.orderId = q.order}
  IN /\ q.op = "capture" /\ q.pc = "cap_find"
     /\ IF S # {}
          THEN \E r \in S : proc' = CapFound(p, r)
          ELSE proc' = [proc EXCEPT ![p].pc = "cap_try_order"]
     /\ UNCHANGED <<rows, nextId, users, gw, now, nops>>

(* tryAttachToPending, strategy 1: by order id *)
CapTryOrder(p) ==
  LET q == proc[p]
      S == {r \in rows : r.orderId = q.order}
  IN /\ q.op = "capture" /\ q.pc = "cap_try_order"
     /\ IF S # {}
          THEN \E r \in S : proc' = CapFound(p, r)
          ELSE proc' = [proc EXCEPT ![p].pc =
                 IF q.g.ref # NoToken THEN "cap_try_token" ELSE "cap_try_heur"]
     /\ UNCHANGED <<rows, nextId, users, gw, now, nops>>

(* strategy 2: client_temp_id = reference_id / invoice_id of the order *)
CapTryToken(p) ==
  LET q == proc[p]
      S == Latest({r \in rows : r.token = q.g.ref})
  IN /\ q.op = "capture" /\ q.pc = "cap_try_token"
     /\ IF S # {}
          THEN \E r \in S : proc' = CapFound(p, r)
          ELSE proc' = [proc EXCEPT ![p].pc = "cap_try_heur"]
     /\ UNCHANGED <<rows, nextId, users, gw, now, nops>>

(* strategy 3: minute bucket of the capture time and amount; the query
   filters neither on status nor on the owner *)
CaptureCandidate(g) ==
  IF gwTime(g) = NoTime \/ g.amount = NoAmount
    THEN {}
    ELSE Latest({r \in rows : r.minute = setSeconds0(gwTime(g)) /\ r.amount = g.amount})

CapTryHeur(p) ==
  LET q == proc[p]
      S == CaptureCandidate(q.g)
  IN /\ q.op = "capture" /\ q.pc = "cap_try_heur"
     /\ IF S # {}
          THEN \E r \in S : proc' = CapFound(p, r)
          ELSE proc' = [proc EXCEPT ![p].pc = "cap_try_user"]
     /\ UNCHANGED <<rows, nextId, users, gw, now, nops>>

(* strategy 4: the caller's most recent pending row *)
CapTryUser(p) ==
  LET q == proc[p]
      S == Latest({r \in rows : r.user_id = q.uid /\ r.status \in pendingStatuses})
  IN /\ q.op = "capture" /\ q.pc = "cap_try_user"
     /\ IF S # {}
          THEN \E r \in S : proc' = CapFound(p, r)
          ELSE proc' = [proc EXCEPT ![p].pc = "cap_insert", ![p].cAt = now]
     /\ UNCHANGED <<rows, nextId, users, gw, now, nops>>

isFinal(status) == status \in finalStatuses

AfterCapture(p, r) ==
  IF isFinal(r.status)
    THEN [proc EXCEPT ![p].pc = "cap_user", ![p].snap = r]
    ELSE Finish(p, "200", "none", r.id)

CapSave(p) ==
  LET q == proc[p]
  IN /\ q.op = "capture" /\ q.pc = "cap_save"
     /\ IF SaveOk(q.snap)
          THEN /\ rows' = Saved(q.snap)
               /\ proc' = AfterCapture(p, q.snap)
          ELSE /\ proc' = Finish(p, "500", "unique", 0)
               /\ UNCHANGED rows
     /\ UNCHANGED <<nextId, users, gw, now, nops>>

CapInsert(p) ==
  LET q == proc[p]
      r0 == [NoRow EXCEPT !.id = nextId, !.user_id = q.uid, !.plan = "Pro",
               !.amount = captureAmount(q.g, 0), !.orderId = q.order,
               !.captureId = gwCaptureId(q.order, q.g),
               !.status = toLowerCase(captureStatus(q.g)), !.createdAt = q.cAt,
               !.minute = setSeconds0(q.cAt),
               !.payerEmail = gwPayerEmail(q.g), !.rawId = gwRawId(q.order, q.g)]
  IN /\ q.op = "capture" /\ q.pc = "cap_insert"
     /\ IF UniqueOk(r0, rows)
          THEN /\ rows' = rows \cup {r0}
               /\ nextId' = nextId + 1
               /\ proc' = AfterCapture(p, r0)
          ELSE /\ proc' = Finish(p, "500", "unique", 0)
               /\ UNCHANGED <<rows, nextId>>
     /\ UNCHANGED <<users, gw, now, nops>>

(* userRepo.findOne of the calling user and the plan / expiry computed from
   what was read *)
CapUser(p) ==
  LET q == proc[p]
  IN /\ q.op = "capture" /\ q.pc = "cap_user"
     /\ proc' = [proc EXCEPT ![p].pc = "cap_usave",
                              ![p].user = UserAfter(users[q.uid], q.snap)]
     /\ UNCHANGED <<rows, nextId, users, gw, now, nops>>

(* userRepo.save(user) of the entity read before *)
CapUserSave(p) ==
  LET q == proc[p]
  IN /\ q.op = "capture" /\ q.pc = "cap_usave"
     /\ users' = [users EXCEPT ![q.uid] = q.user]
     /\ proc' = Finish(p, "200", "none", q.snap.id)
     /\ UNCHANGED <<rows, nextId, gw, now, nops>>

(* ---------------------------------------------------------------------- *)
(* POST webhook: PaymentsService.handleWebhook, run detached from the       *)
(* request; every failure is logged and swallowed                           *)
(* ---------------------------------------------------------------------- *)

(* a capture-related event for an order: getOrderOnPayPal(orderId) *)
StartWebhook(p, orderID) ==
  LET base == [IdleProc EXCEPT !.op = "webhook", !.order = orderID]
  IN /\ CanStart(p)
     /\ nops' = nops + 1
     /\ \E h \in GwReach(gw[orderID]) :
          /\ gw' = [gw EXCEPT ![orderID] = h]
          /\ \/ /\ h.status # "NONE"
                /\ proc' = [proc EXCEPT ![p] = [base EXCEPT !.pc = "wh_find", !.g = h]]
             \/ proc' = [proc EXCEPT ![p] = Done(base, "200", "gateway", 0)]
     /\ UNCHANGED <<rows, nextId, users, now>>

(* an event without event_type, or of a type that is not capture-related *)
StartWebhookIgnored(p) ==
  /\ CanStart(p)
  /\ nops' = nops + 1
  /\ proc' = [proc EXCEPT ![p] =
       Done([IdleProc EXCEPT !.op = "webhookIgnored"], "200", "none", 0)]
  /\ UNCHANGED <<rows, nextId, users, gw, now>>

(* cap?.status ?? order.status ?? payment.status ?? "completed" *)
webhookStatus(g, current) == IF g.status = NoStatus THEN current ELSE g.status

(* Number(amount ?? 0) *)
webhookAmount(g) == IF g.amount = NoAmount THEN 0 ELSE g.amount

(* cap?.create_time ?? order?.create_time ?? order?.update_time ?? now *)
webhookTime(g) == IF gwTime(g) = NoTime THEN now ELSE gwTime(g)

(* getOrderOnPayPal answers with an object of unexpected shape *)
StartWebhookMalformed(p, orderID) ==
  /\ CanStart(p)
  /\ nops' = nops + 1
  /\ proc' = [proc EXCEPT ![p] =
       [IdleProc EXCEPT !.op = "webhook", !.order = orderID,
                        !.pc = "wh_find", !.g = Malformed]]
  /\ UNCHANGED <<rows, nextId, users, gw, now>>

(* an update by order id that drops the capture id it found *)
WebhookEntityDropsCapture(r, orderID, g) ==
  [r EXCEPT !.captureId = NoCapture,
            !.status = toLowerCase(webhookStatus(g, r.status)),
            !.payerEmail = gwPayerEmail(g) \/ r.payerEmail,
            !.rawId = gwRawId(orderID, g), !.metaCreated = NoTime]

(* the update by order id: capture id and status, not the amount; the
   payer's e-mail address, and the fetched order as the whole of raw (the
   __meta of the row is gone) *)
WebhookEntity(r, orderID, g) ==
  [r EXCEPT !.captureId = IF gwCaptureId(orderID, g) # NoCapture
                            THEN gwCaptureId(orderID, g) ELSE r.captureId,
            !.status = toLowerCase(webhookStatus(g, r.status)),
            !.payerEmail = gwPayerEmail(g) \/ r.payerEmail,
            !.rawId = gwRawId(orderID, g), !.metaCreated = NoTime]

WhFind(p) ==
  LET q == proc[p]
      S == {r \in rows : r.orderId = q.order}
  IN /\ q.op = "webhook" /\ q.pc = "wh_find"
     /\ IF S # {}
          THEN \E r \in S :
                 proc' = [proc EXCEPT ![p].pc = "wh_save", ![p].prev = r.status,
                                      ![p].snap = WebhookEntity(r, q.order, q.g)]
          ELSE proc' = [proc EXCEPT ![p].pc = "wh_heur",
                                    ![p].g = [q.g EXCEPT !.time = webhookTime(q.g)]]
     /\ UNCHANGED <<rows, nextId, users, gw, now, nops>>

WhSave(p) ==
  LET q == proc[p]
  IN /\ q.op = "webhook" /\ q.pc = "wh_save"
     /\ IF SaveOk(q.snap)
          THEN /\ rows' = Saved(q.snap)
               /\ proc' = Finish(p, "200", "none", q.snap.id)
          ELSE /\ proc' = Finish(p, "200", "unique", 0)
               /\ UNCHANGED rows
     /\ UNCHANGED <<nextId, users, gw, now, nops>>

(* pending row of the capture's minute bucket and amount, newest first *)
WebhookCandidate(g) ==
  Latest({r \in rows : r.minute = setSeconds0(gwTime(g))
                        /\ r.amount = webhookAmount(g)
                        /\ r.status \in pendingStatuses})

WhHeur(p) ==
  LET q == proc[p]
      S == WebhookCandidate(q.g)
  IN /\ q.op = "webhook" /\ q.pc = "wh_heur"
     /\ \/ \E r \in S :
             /\ r.user_id # NoUser
             /\ proc' = [proc EXCEPT ![p].pc = "wh_hsave", ![p].prev = r.status,
                  ![p].snap = [WebhookEntity(r, q.order, q.g) EXCEPT !.orderId = q.order]]
        \/ /\ \/ S = {}
              \/ \E r \in S : r.user_id = NoUser
           /\ proc' = [proc EXCEPT ![p].pc = "wh_insert", ![p].cAt = now]
     /\ UNCHANGED <<rows, nextId, users, gw, now, nops>>

WhHSave(p) ==
  LET q == proc[p]
  IN /\ q.op = "webhook" /\ q.pc = "wh_hsave"
     /\ IF SaveOk(q.snap)
          THEN /\ rows' = Saved(q.snap)
               /\ proc' = [proc EXCEPT ![p].pc = "wh_user"]
          ELSE /\ proc' = Finish(p, "200", "unique", 0)
               /\ UNCHANGED rows
     /\ UNCHANGED <<nextId, users, gw, now, nops>>

(* userRepo.findOne of the owner of the reconciled row and the plan / expiry
   computed from what was read, whatever the row's status *)
WhUser(p) ==
  LET q == proc[p]
  IN /\ q.op = "webhook" /\ q.pc = "wh_user"
     /\ proc' = [proc EXCEPT ![p].pc = "wh_usave",
                              ![p].user = UserAfter(users[q.snap.user_id], q.snap)]
     /\ UNCHANGED <<rows, nextId, users, gw, now, nops>>

(* userRepo.save(user) of the entity read before *)
WhUserSave(p) ==
  LET q == proc[p]
  IN /\ q.op = "webhook" /\ q.pc = "wh_usave"
     /\ users' = [users EXCEPT ![q.snap.user_id] = q.user]
     /\ proc' = Finish(p, "200", "none", q.snap.id)
     /\ UNCHANGED <<rows, nextId, gw, now, nops>>

(* an orphan insert whose refusal by the store reaches the gateway *)
WhInsertThrows(p) ==
  LET q == proc[p]
      r0 == [NoRow EXCEPT !.id = nextId, !.amount = webhookAmount(q.g),
               !.orderId = q.order, !.captureId = gwCaptureId(q.order, q.g),
               !.status = toLowerCase(webhookStatus(q.g, "completed")),
               !.createdAt = q.cAt,
               !.minute = setSeconds0(gwTime(q.g)),
               !.payerEmail = gwPayerEmail(q.g), !.rawId = gwRawId(q.order, q.g)]
  IN /\ q.op = "webhook" /\ q.pc = "wh_insert"
     /\ IF UniqueOk(r0, rows)
          THEN /\ rows' = rows \cup {r0}
               /\ nextId' = nextId + 1
               /\ proc' = Finish(p, "200", "none", r0.id)
          ELSE /\ proc' = Finish(p, "500", "unique", 0)
               /\ UNCHANGED <<rows, nextId>>
     /\ UNCHANGED <<users, gw, now, nops>>

(* the orphan row: no owner, no plan; created_at is the server time while
   created_at_minute is the bucket of the gateway's time *)
WhInsert(p) ==
  LET q == proc[p]
      r0 == [NoRow EXCEPT !.id = nextId, !.amount = webhookAmount(q.g),
               !.orderId = q.order, !.captureId = gwCaptureId(q.order, q.g),
               !.status = toLowerCase(webhookStatus(q.g, "completed")),
               !.createdAt = q.cAt,
               !.minute = setSeconds0(gwTime(q.g)),
               !.payerEmail = gwPayerEmail(q.g), !.rawId = gwRawId(q.order, q.g)]
  IN /\ q.op = "webhook" /\ q.pc = "wh_insert"
     /\ IF UniqueOk(r0, rows)
          THEN /\ rows' = rows \cup {r0}
               /\ nextId' = nextId + 1
               /\ proc' = Finish(p, "200", "none", r0.id)
          ELSE /\ proc' = Finish(p, "200", "unique", 0)
               /\ UNCHANGED <<rows, nextId>>
     /\ UNCHANGED <<users, gw, now, nops>>

(* ---------------------------------------------------------------------- *)
(* The notification envelope: event type, the order id among the related   *)
(* ids of the resource (or resource.order_id), resource.id, and the status *)
(* and amount the payload states.  An id is absent (NoOrder), the empty    *)
(* string, or a value                                                      *)
(* ---------------------------------------------------------------------- *)
NoType == ""
captureEventTypes == {"CHECKOUT.ORDER.APPROVED", "PAYMENT.CAPTURE.COMPLETED",
                      "PAYMENT.CAPTURE.DENIED", "PAYMENT.CAPTURE.PENDING"}
EventTypes == {NoType, "PAYMENT.CAPTURE.COMPLETED", "PAYMENT.SALE.REFUNDED"}
ResourceIds == {NoOrder, "", "Y1"}

Events ==
  [type : EventTypes, order : {NoOrder, "", "X1"}, rid : ResourceIds,
   status : {"COMPLETED", "DENIED"}, amount : {1, 1299}]

(* related_ids.order_id ?? resource.order_id ?? resource.id ?? null: ?? passes
   on an absent value only, an empty string is kept *)
orderIdOf(ev) ==
  IF ev.order # NoOrder THEN ev.order
  ELSE IF ev.rid # NoOrder THEN ev.rid
  ELSE NoOrder

(* the branch for a resource id with an order id that is absent or empty:
   the row of that capture id takes the status stated by the payload, and raw
   becomes the event; the gateway is not asked *)
StartWebhookByCapture(p, ev) ==
  LET base == [IdleProc EXCEPT !.op = "webhook", !.order = NoOrder]
      S == {r \in rows : r.captureId = ev.rid}
  IN /\ CanStart(p)
     /\ nops' = nops + 1
     /\ IF S # {}
          THEN \E r \in S :
                 proc' = [proc EXCEPT ![p] =
                   [base EXCEPT !.pc = "wh_save", !.prev = r.status,
                                !.snap = [r EXCEPT !.status = toLowerCase(ev.status),
                                                   !.rawId = NoOrder,
                                                   !.metaCreated = NoTime]]]
          ELSE proc' = [proc EXCEPT ![p] = Done(base, "200", "none", 0)]
     /\ UNCHANGED <<rows, nextId, users, gw, now>>

(* getOrderOnPayPal with an id the gateway knows no order for: it throws *)
StartWebhookUnknownOrder(p, orderId) ==
  /\ CanStart(p)
  /\ nops' = nops + 1
  /\ proc' = [proc EXCEPT ![p] =
       Done([IdleProc EXCEPT !.op = "webhook", !.order = orderId],
            "200", "gateway", 0)]
  /\ UNCHANGED <<rows, nextId, users, gw, now>>

(* handleWebhook(event) up to its first await; !orderId and !resource.id
   hold of an absent id and of the empty string *)
HandleWebhookEvent(p, ev) ==
  IF ev.type \notin captureEventTypes
    THEN StartWebhookIgnored(p)
  ELSE IF orderIdOf(ev) \in {NoOrder, ""} /\ ev.rid \notin {NoOrder, ""}
    THEN StartWebhookByCapture(p, ev)
  ELSE IF orderIdOf(ev) \in {NoOrder, ""}
    THEN StartWebhookIgnored(p)
  ELSE IF orderIdOf(ev) \in Orders
    THEN StartWebhook(p, orderIdOf(ev))
  ELSE StartWebhookUnknownOrder(p, orderIdOf(ev))

(* ---------------------------------------------------------------------- *)
(* GET check-access: PaymentsService.getAccessInfo                          *)
(* ---------------------------------------------------------------------- *)
allowedStatuses == {"completed", "captured", "succeeded", "success", "paid"}

(* a lookup of successful payments that forgets whose they are *)
hasSuccessfulPaymentAnyOwner(userId) ==
  \E r \in rows : r.status \in allowedStatuses

(* !!found: a row of the user in one of the allowed statuses *)
hasSuccessfulPayment(userId) ==
  \E r \in rows : r.user_id = userId /\ r.status \in allowedStatuses

(* user.plan_expiry is a date after Date.now() *)
activeSubscription(user) == user.expiry # NoTime /\ user.expiry > now

(* the answer of getAccessInfo from the user read, the subscription state
   computed when the user was read, and the outcome of the payment lookup *)
getAccessInfo(user, active, found) ==
  LET plan == IF user.plan = NullStr THEN "Free" ELSE user.plan
  IN [NoAccess EXCEPT
        !.allowed = IF toLowerCase(plan) = "free" THEN TRUE ELSE (active \/ found),
        !.activeSubscription = active,
        !.hasSuccessfulPayment = found]

(* pending.amount of the user's latest pending-like row, if there is one *)
pendingAmounts(userId) ==
  LET S == Latest({r \in rows : r.user_id = userId /\ r.status \in pendingStatuses})
  IN IF S = {} THEN {NoAmount} ELSE {r.amount : r \in S}

(* the request: the validity check of the id and userRepo.findOne *)
CheckAccess(p, userId) ==
  LET base == [IdleProc EXCEPT !.op = "checkAccess", !.uid = userId]
  IN /\ CanStart(p)
     /\ nops' = nops + 1
     /\ IF userId = NoUser
          THEN proc' = [proc EXCEPT ![p] =
                 [Done(base, "200", "none", 0) EXCEPT !.uid = userId,
                    !.access = [NoAccess EXCEPT !.reason = "invalid_user"]]]
        ELSE IF userId \notin DOMAIN users
          THEN proc' = [proc EXCEPT ![p] =
                 [Done(base, "200", "none", 0) EXCEPT !.uid = userId,
                    !.access = [NoAccess EXCEPT !.reason = "user_not_found"]]]
        ELSE proc' = [proc EXCEPT ![p] =
                 [base EXCEPT !.pc = "acc_found", !.user = users[userId],
                    !.access = [NoAccess EXCEPT
                       !.activeSubscription = activeSubscription(users[userId])]]]
     /\ UNCHANGED <<rows, nextId, users, gw, now>>

(* the lookup of a successful payment of the user *)
AccFound(p) ==
  LET q == proc[p]
  IN /\ q.op = "checkAccess" /\ q.pc = "acc_found"
     /\ proc' = [proc EXCEPT ![p].pc = "acc_pending",
          ![p].access = getAccessInfo(q.user, q.access.activeSubscription,
                                      hasSuccessfulPayment(q.uid))]
     /\ UNCHANGED <<rows, nextId, users, gw, now, nops>>

(* the lookup of the pending row, and the answer *)
AccPending(p) ==
  LET q == proc[p]
  IN /\ q.op = "checkAccess" /\ q.pc = "acc_pending"
     /\ \E amt \in pendingAmounts(q.uid) :
          proc' = [proc EXCEPT ![p] =
            [Done(q, "200", "none", 0) EXCEPT !.uid = q.uid,
               !.access = [q.access EXCEPT !.reason = "null",
                                           !.pendingAmount = amt]]]
     /\ UNCHANGED <<rows, nextId, users, gw, now, nops>>

(* ---------------------------------------------------------------------- *)
(* DELETE :id : PaymentsService.deletePaymentForUser                        *)
(* ---------------------------------------------------------------------- *)

(* the lookup and the ownership check; a missing row is the controller's
   404, another user's row the service's 403 *)
StartDeletePayment(p, uid, paymentId) ==
  LET base == [IdleProc EXCEPT !.op = "deletePayment", !.uid = uid,
                 !.target = paymentId]
  IN /\ CanStart(p)
     /\ nops' = nops + 1
     /\ IF ~HasRow(paymentId)
          THEN proc' = [proc EXCEPT ![p] = Done(base, "404", "notfound", 0)]
          ELSE IF RowById(paymentId).user_id # uid
            THEN proc' = [proc EXCEPT ![p] = Done(base, "403", "forbidden", 0)]
            ELSE proc' = [proc EXCEPT ![p] = [base EXCEPT !.pc = "del_delete"]]
     /\ UNCHANGED <<rows, nextId, users, gw, now>>

(* paymentRepo.delete(pid): by id alone, whatever the row has become *)
DelDelete(p) ==
  LET q == proc[p]
  IN /\ q.op = "deletePayment" /\ q.pc = "del_delete"
     /\ rows' = {r \in rows : r.id # q.target}
     /\ proc' = Finish(p, "200", "none", q.target)
     /\ UNCHANGED <<nextId, users, gw, now, nops>>

(* ---------------------------------------------------------------------- *)
(* DELETE clear-pending: PaymentsService.clearPendingForUser                *)
(* ---------------------------------------------------------------------- *)

(* one DELETE statement: every row of the user in a pending status goes; the
   answer is the number of rows deleted *)
ClearPending(p, uid) ==
  LET base == [IdleProc EXCEPT !.op = "clearPending"]
      gone == {r \in rows : r.user_id = uid /\ r.status \in pendingStatuses}
  IN /\ CanStart(p)
     /\ nops' = nops + 1
     /\ rows' = rows \ gone
     /\ proc' = [proc EXCEPT ![p] =
          [Done(base, "200", "none", Cardinality(gone)) EXCEPT !.uid = uid]]
     /\ UNCHANGED <<nextId, users, gw, now>>

(* ---------------------------------------------------------------------- *)
(* The system                                                               *)
(* ---------------------------------------------------------------------- *)
RawInputs == {NoRaw, NoTime}
PublicAmounts == {0, 1299}

CreatePending ==
  \/ \E p \in Procs, uid \in Users, pl \in PlanInputs, b \in BillingInputs,
        a \in AmountInputs, t \in TokenInputs, c \in CreatedAtInputs :
        nops < MaxRaceOps /\ StartCreatePending(p, uid, pl, b, a, t, c)
  \/ \E p \in Procs : CpUpsert(p)
  \/ \E p \in Procs : CpFind2(p)
  \/ \E p \in Procs : CpInsert(p)
  \/ \E p \in Procs : CpReread(p)
  \/ \E p \in Procs : CpDup(p)
  \/ \E p \in Procs : CpFallback(p)

CreateOrder ==
  \/ \E p \in Procs, uid \in Users, pl \in PlanInputs, b \in BillingInputs :
        nops < MaxRaceOps /\ StartCreateOrder(p, uid, pl, b)
  \/ \E p \in Procs : CoGateway(p)
  \/ \E p \in Procs : CoUser(p)
  \/ \E p \in Procs : CoInsert(p)
  \/ \E p \in Procs : CoSave(p)

AttachOrder ==
  \/ \E p \in Procs, uid \in Users, id \in 1..nextId, o \in Orders, raw \in RawInputs :
        nops < MaxRaceOps /\ StartAttachOrder(p, uid, id, o, raw)
  \/ \E p \in Procs : AoSave(p)

AttachPublic ==
  \/ \E p \in Procs, o \in Orders, a \in PublicAmounts, c \in CreatedAtInputs,
        t \in TokenInputs, raw \in RawInputs :
        /\ nops < MaxRaceOps
        /\ a # 0 => raw # NoRaw
        /\ StartAttachPublic(p, o, a, c, t, raw)
  \/ \E p \in Procs : ApSave(p)
  \/ \E p \in Procs : ApInsert(p)

Capture ==
  \/ \E p \in Procs, uid \in Users, o \in Orders :
        nops < MaxRaceOps /\ StartCapture(p, uid, o)
  \/ \E p \in Procs, uid \in Users, o \in Orders :
        nops < MaxRaceOps /\ StartCaptureMalformed(p, uid, o)
  \/ \E p \in Procs : CapFind(p)
  \/ \E p \in Procs : CapTryOrder(p)
  \/ \E p \in Procs : CapTryToken(p)
  \/ \E p \in Procs : CapTryHeur(p)
  \/ \E p \in Procs : CapTryUser(p)
  \/ \E p \in Procs : CapSave(p)
  \/ \E p \in Procs : CapInsert(p)
  \/ \E p \in Procs : CapUser(p)
  \/ \E p \in Procs : CapUserSave(p)

Webhook ==
  \/ \E p \in Procs, o \in Orders : nops < MaxRaceOps /\ StartWebhook(p, o)
  \/ \E p \in Procs, o \in Orders : nops < MaxRaceOps /\ StartWebhookMalformed(p, o)
  \/ \E p \in Procs : nops < MaxRaceOps /\ StartWebhookIgnored(p)
  \/ \E p \in Procs, ev \in Events : nops < MaxRaceOps /\ HandleWebhookEvent(p, ev)
  \/ \E p \in Procs : WhFind(p)
  \/ \E p \in Procs : WhSave(p)
  \/ \E p \in Procs : WhHeur(p)
  \/ \E p \in Procs : WhHSave(p)
  \/ \E p \in Procs : WhUser(p)
  \/ \E p \in Procs : WhUserSave(p)
  \/ \E p \in Procs : WhInsert(p)

Next ==
  \/ Tick
  \/ CreatePending
  \/ CreateOrder
  \/ AttachOrder
  \/ AttachPublic
  \/ Capture
  \/ Webhook
  \/ \E p \in Procs, uid \in Users \cup {NoUser} :
        nops < MaxRaceOps /\ CheckAccess(p, uid)
  \/ \E p \in Procs : AccFound(p)
  \/ \E p \in Procs : AccPending(p)
  \/ \E p \in Procs, uid \in Users, id \in 1..nextId :
        nops < MaxRaceOps /\ StartDeletePayment(p, uid, id)
  \/ \E p \in Procs : DelDelete(p)
  \/ \E p \in Procs, uid \in Users : nops < MaxRaceOps /\ ClearPending(p, uid)

Spec == Init /\ [][Next]_vars


(* ---------------------------------------------------------------------- *)
(* Steps of the handlers, grouped by handler                                *)
(* ---------------------------------------------------------------------- *)
CpSteps ==
  \/ \E p \in Procs : CpUpsert(p)
  \/ \E p \in Procs : CpFind2(p)
  \/ \E p \in Procs : CpInsert(p)
  \/ \E p \in Procs : CpReread(p)
  \/ \E p \in Procs : CpDup(p)
  \/ \E p \in Procs : CpFallback(p)

ApSteps ==
  \/ \E p \in Procs : ApSave(p)
  \/ \E p \in Procs : ApInsert(p)

CapSteps ==
  \/ \E p \in Procs : CapFind(p)
  \/ \E p \in Procs : CapTryOrder(p)
  \/ \E p \in Procs : CapTryToken(p)
  \/ \E p \in Procs : CapTryHeur(p)
  \/ \E p \in Procs : CapTryUser(p)
  \/ \E p \in Procs : CapSave(p)
  \/ \E p \in Procs : CapInsert(p)
  \/ \E p \in Procs : CapUser(p)
  \/ \E p \in Procs : CapUserSave(p)

WhSteps ==
  \/ \E p \in Procs : WhFind(p)
  \/ \E p \in Procs : WhSave(p)
  \/ \E p \in Procs : WhHeur(p)
  \/ \E p \in Procs : WhHSave(p)
  \/ \E p \in Procs : WhUser(p)
  \/ \E p \in Procs : WhUserSave(p)
  \/ \E p \in Procs : WhInsert(p)

AllDone == \A p \in Procs : proc[p].pc = "done"

(* ---------------------------------------------------------------------- *)
(* One real payment: owner 1 buys Pro monthly, the gateway order is X1 and  *)
(* its capture Y1.  The three signals arrive in any order, any number of    *)
(* times, concurrently.                                                     *)
(* ---------------------------------------------------------------------- *)
NextOnePayment ==
  \/ Tick
  \/ \E p \in Procs, t \in TokenInputs, c \in CreatedAtInputs :
        nops < MaxRaceOps /\ StartCreatePending(p, 1, "Pro", "monthly", 0, t, c)
  \/ CpSteps
  \/ \E p \in Procs, id \in 1..nextId, raw \in RawInputs :
        nops < MaxRaceOps /\ StartAttachOrder(p, 1, id, "X1", raw)
  \/ \E p \in Procs : AoSave(p)
  \/ \E p \in Procs, a \in PublicAmounts, c \in CreatedAtInputs, t \in TokenInputs,
        raw \in RawInputs :
        /\ nops < MaxRaceOps
        /\ a # 0 => raw # NoRaw
        /\ StartAttachPublic(p, "X1", a, c, t, raw)
  \/ ApSteps
  \/ \E p \in Procs : nops < MaxRaceOps /\ StartCapture(p, 1, "X1")
  \/ CapSteps
  \/ \E p \in Procs : nops < MaxRaceOps /\ StartWebhook(p, "X1")
  \/ WhSteps

SpecOnePayment == Init /\ [][NextOnePayment]_vars


(* C1: for one real payment, once a settlement has made a row of order X1
   terminal and every request has returned, the ledger holds exactly one
   row, and it is terminal. *)
C1_OneTerminalRowPerPayment ==
  (AllDone /\ \E r \in rows : r.orderId = "X1" /\ r.status \in TerminalStatuses)
    => (Cardinality(rows) = 1 /\ \A r \in rows : r.status \in TerminalStatuses)

(* C5: I4 - a row whose status is terminal keeps that status in every step. *)
C5_TerminalStatusIsFinal ==
  [][\A r \in rows : r.status \in TerminalStatuses
        => \A r2 \in rows' : r2.id = r.id => r2.status = r.status]_vars

(* C7: P2 - an attach-order request that is refused because the order id is
   already held by another row is answered with a ConflictError, a 4xx
   failure. *)
C7_AttachConflictIs4xx ==
  \A p \in Procs :
    (proc[p].op = "attachOrder" /\ proc[p].pc = "done" /\ proc[p].err = "unique")
      => proc[p].res \in {"400", "404", "409"}


(* ---------------------------------------------------------------------- *)
(* The checkout round trip, one request after the other: the pending row,   *)
(* the order attached to the returned row, the capture, and the capture     *)
(* requested once more.                                                     *)
(* ---------------------------------------------------------------------- *)
PreviousOk == proc[1].pc = "done" /\ proc[1].res = "200"

RtCreate ==
  /\ nops = 0
  /\ \E uid \in Users, b \in BillingInputs, t \in TokenInputs, c \in CreatedAtInputs :
        StartCreatePending(1, uid, "Pro", b, 0, t, c)

RtAttach ==
  /\ nops = 1 /\ PreviousOk
  /\ \E r \in rows, raw \in RawInputs :
        r.id = proc[1].ret /\ StartAttachOrder(1, r.user_id, r.id, "X1", raw)

RtCapture ==
  /\ nops \in {2, 3} /\ PreviousOk
  /\ \E r \in rows : r.orderId = "X1" /\ StartCapture(1, r.user_id, "X1")

NextCheckout ==
  \/ Tick
  \/ RtCreate
  \/ CpUpsert(1)
  \/ CpFind2(1)
  \/ CpInsert(1)
  \/ CpReread(1)
  \/ RtAttach
  \/ AoSave(1)
  \/ RtCapture
  \/ CapFind(1)
  \/ CapSave(1)
  \/ CapUser(1)
  \/ CapUserSave(1)

SpecCheckout == Init /\ [][NextCheckout]_vars

(* C6: P5 - after provisionalCreate, attachOrder of X1 to the returned row
   and a capture of X1 that the gateway completed, the ledger holds exactly
   one row, with order id X1, capture id Y1 and status completed. *)
C6_RoundTrip ==
  (nops = 3 /\ PreviousOk /\ gw["X1"].status = "COMPLETED")
    => \E r \in rows : /\ rows = {r}
                       /\ r.orderId = "X1"
                       /\ r.captureId = CaptureIdOf("X1")
                       /\ r.status = "completed"

C6_RoundTripDone ==
  /\ nops = 3 /\ PreviousOk /\ gw["X1"].status = "COMPLETED"
  /\ proc[1].op = "capture"
  /\ \E r \in rows : r.orderId = "X1" /\ r.user_id \in Users

(* C8: P3 - the second capture of the same order leaves exactly one row and
   does not touch the owner's plan or plan_expiry. *)
C8_SecondCaptureIsNoOp ==
  [][nops = 4 => (users' = users /\ Cardinality(rows') = 1)]_vars


(* ---------------------------------------------------------------------- *)
(* The double submit: owner 1 posts the same pending payment (Pro, the same *)
(* client time, hence the same minute bucket) several times concurrently,   *)
(* with a billing period or without one.                                    *)
(* ---------------------------------------------------------------------- *)
SubmitTimes == CreatedAtInputs \ {NoTime}

NextDoubleSubmit ==
  \/ \E p \in Procs, b \in BillingInputs, t \in TokenInputs, c \in SubmitTimes :
        nops < MaxRaceOps /\ StartCreatePending(p, 1, "Pro", b, 0, t, c)
  \/ \E p \in Procs : CpUpsert(p)
  \/ \E p \in Procs : CpFind2(p)
  \/ \E p \in Procs : CpInsert(p)
  \/ \E p \in Procs : CpReread(p)
  \/ \E p \in Procs : CpDup(p)

SpecDoubleSubmit == Init /\ [][NextDoubleSubmit]_vars

(* every submit so far carried the same billing period *)
IdenticalSubmits == \A r1 \in rows, r2 \in rows : r1.billing = r2.billing

(* C2: P1 - concurrent provisionalCreate calls with identical (owner, plan,
   billing, minute bucket) leave exactly one row, and every call returns
   that row without error. *)
C2_DoubleSubmitOneRow ==
  (AllDone /\ nops >= 2 /\ IdenticalSubmits)
    => /\ Cardinality(rows) = 1
       /\ \A p \in Procs : proc[p].op = "createPending"
             => (proc[p].res = "200" /\ \E r \in rows : r.id = proc[p].ret)

(* C3: I3 - for every tuple (owner, plan, billing period, minute bucket),
   null components included, at most one row has a pending-like status. *)
C3_OnePendingPerTuple ==
  \A r1 \in rows, r2 \in rows :
    ( /\ r1.status \in pendingStatuses /\ r2.status \in pendingStatuses
      /\ r1.user_id = r2.user_id /\ r1.plan = r2.plan
      /\ r1.billing = r2.billing /\ r1.minute = r2.minute )
      => r1.id = r2.id

(* ---------------------------------------------------------------------- *)
(* Gateway identifiers: owner 1's pending rows and two gateway orders that  *)
(* carry no reference; attach, capture and webhook requests arrive in any   *)
(* order, concurrently.                                                     *)
(* ---------------------------------------------------------------------- *)
NoReference(o) == gw'[o].ref = NoToken

NextIds ==
  \/ Tick
  \/ \E p \in Procs :
        nops < MaxRaceOps /\ StartCreatePending(p, 1, "Pro", "monthly", 0, NoToken, NoTime)
  \/ \E p \in Procs : CpFind2(p)
  \/ \E p \in Procs : CpInsert(p)
  \/ \E p \in Procs : CpReread(p)
  \/ \E p \in Procs : CpDup(p)
  \/ \E p \in Procs : CpFallback(p)
  \/ \E p \in Procs, id \in 1..nextId, o \in Orders :
        nops < MaxRaceOps /\ StartAttachOrder(p, 1, id, o, NoRaw)
  \/ \E p \in Procs : AoSave(p)
  \/ \E p \in Procs, o \in Orders :
        nops < MaxRaceOps /\ StartAttachPublic(p, o, 1299, NoTime, NoToken, NoTime)
  \/ ApSteps
  \/ \E p \in Procs, o \in Orders :
        nops < MaxRaceOps /\ StartCapture(p, 1, o) /\ NoReference(o)
  \/ \E p \in Procs : CapFind(p)
  \/ \E p \in Procs : CapTryOrder(p)
  \/ \E p \in Procs : CapTryHeur(p)
  \/ \E p \in Procs : CapTryUser(p)
  \/ \E p \in Procs : CapSave(p)
  \/ \E p \in Procs : CapInsert(p)
  \/ \E p \in Procs : CapUser(p)
  \/ \E p \in Procs : CapUserSave(p)
  \/ \E p \in Procs, o \in Orders :
        nops < MaxRaceOps /\ StartWebhook(p, o) /\ NoReference(o)
  \/ WhSteps

SpecIds == Init /\ [][NextIds]_vars

(* C4: I1/I2 - no two rows hold the same non-null gateway order id, and no
   two rows hold the same non-null gateway capture id. *)
C4_GatewayIdsUnique ==
  \A r1 \in rows, r2 \in rows :
    r1.id # r2.id
      => /\ (r1.orderId # NoOrder => r1.orderId # r2.orderId)
         /\ (r1.captureId # NoCapture => r1.captureId # r2.captureId)

(* a webhook that wanted to insert a second row with a capture id another
   row already holds was refused by the store *)
C4_CaptureIdRefused ==
  /\ \E p \in Procs : proc[p].op = "webhook" /\ proc[p].pc = "done"
                       /\ proc[p].err = "unique"
  /\ \E r \in rows : r.captureId # NoCapture /\ r.orderId = NoOrder

(* ---------------------------------------------------------------------- *)
(* The webhook first: capture events for order X1 are delivered, possibly   *)
(* concurrently, to a ledger nobody has written to.                         *)
(* ---------------------------------------------------------------------- *)
CaptureEvent(p) == StartWebhook(p, "X1") /\ Captured(gw'["X1"])

NextWebhookFirst ==
  \/ Tick
  \/ \E p \in Procs : nops < MaxRaceOps /\ CaptureEvent(p)
  \/ \E p \in Procs : WhFind(p)
  \/ \E p \in Procs : WhSave(p)
  \/ \E p \in Procs : WhHeur(p)
  \/ \E p \in Procs : WhInsert(p)

SpecWebhookFirst == Init /\ [][NextWebhookFirst]_vars

(* a delivery that was processed: the order could be fetched *)
Processed(p) ==
  proc[p].op = "webhook" /\ proc[p].pc = "done" /\ proc[p].err # "gateway"

(* C9: P4 - once a capture event for X1 has been processed on an empty
   ledger, the handler has answered normally and the ledger holds exactly
   one row: order X1, terminal status, no owner; further deliveries keep it
   at one row. *)
C9_WebhookFirstOneRow ==
  (\E p \in Procs : Processed(p))
    => /\ \A p \in Procs : Processed(p) => proc[p].res = "200"
       /\ \E r \in rows : /\ rows = {r}
                          /\ r.orderId = "X1"
                          /\ r.status \in TerminalStatuses
                          /\ r.user_id = NoUser

(* a redelivery was processed after the anonymous row was inserted *)
C9_Redelivered ==
  /\ nops >= 2 /\ AllDone
  /\ \A p \in Procs : Processed(p)
  /\ \E r \in rows : r.orderId = "X1" /\ r.user_id = NoUser

(* ---------------------------------------------------------------------- *)
(* Redelivery: an optional pending row, an optional attach of X1 to it,     *)
(* the first delivery of the capture event, then the same event again, one  *)
(* request after the other.                                                 *)
(* ---------------------------------------------------------------------- *)
RdCreate ==
  /\ nops = 0
  /\ \/ \E uid \in Users, b \in BillingInputs, c \in CreatedAtInputs :
           StartCreatePending(1, uid, "Pro", b, 0, NoToken, c)
     \/ StartWebhookIgnored(1)

RdAttach ==
  /\ nops = 1 /\ proc[1].pc = "done"
  /\ \/ \E r \in rows : StartAttachOrder(1, r.user_id, r.id, "X1", NoRaw)
     \/ StartWebhookIgnored(1)

RdDeliver ==
  /\ nops >= 2 /\ proc[1].pc = "done"
  /\ nops > 2 => (proc[1].op = "webhook" /\ proc[1].err = "none")
  /\ CaptureEvent(1)

NextRedelivery ==
  \/ Tick
  \/ RdCreate
  \/ CpFind2(1)
  \/ CpInsert(1)
  \/ CpReread(1)
  \/ RdAttach
  \/ AoSave(1)
  \/ RdDeliver
  \/ WhFind(1)
  \/ WhSave(1)
  \/ WhHeur(1)
  \/ WhHSave(1)
  \/ WhUser(1)
  \/ WhUserSave(1)
  \/ WhInsert(1)

SpecRedelivery == Init /\ [][NextRedelivery]_vars

(* C10: once the capture event has been processed, processing it again
   changes neither the ledger rows nor any user's plan and plan_expiry,
   whether the first delivery matched by order id, by the heuristic, or
   inserted an anonymous row. *)
C10_RedeliveryIsNoOp ==
  [][nops >= 4 => (rows' = rows /\ users' = users)]_vars

(* a redelivery has been processed after a first delivery that reconciled
   a pending row by the heuristic and granted the plan *)
C10_RedeliveredAfterHeuristic ==
  /\ nops >= 4 /\ proc[1].pc = "done" /\ proc[1].op = "webhook"
  /\ proc[1].err = "none"
  /\ \E r \in rows : r.orderId = "X1" /\ r.user_id \in Users
                      /\ users[r.user_id].plan = "Pro"


(* ---------------------------------------------------------------------- *)
(* Owners: two users and one gateway order X1 without reference; pending    *)
(* rows, attaches, captures by either user and webhooks, concurrently.      *)
(* ---------------------------------------------------------------------- *)
NextOwners ==
  \/ Tick
  \/ \E p \in Procs, uid \in Users :
        nops < MaxRaceOps /\ StartCreatePending(p, uid, "Pro", "monthly", 0, NoToken, NoTime)
  \/ \E p \in Procs : CpFind2(p)
  \/ \E p \in Procs : CpInsert(p)
  \/ \E p \in Procs : CpReread(p)
  \/ \E p \in Procs : CpDup(p)
  \/ \E p \in Procs : CpFallback(p)
  \/ \E p \in Procs, uid \in Users, id \in 1..nextId :
        nops < MaxRaceOps /\ StartAttachOrder(p, uid, id, "X1", NoRaw)
  \/ \E p \in Procs : AoSave(p)
  \/ \E p \in Procs :
        nops < MaxRaceOps /\ StartAttachPublic(p, "X1", 1299, NoTime, NoToken, NoTime)
  \/ ApSteps
  \/ \E p \in Procs, uid \in Users :
        nops < MaxRaceOps /\ StartCapture(p, uid, "X1") /\ NoReference("X1")
  \/ \E p \in Procs : CapFind(p)
  \/ \E p \in Procs : CapTryOrder(p)
  \/ \E p \in Procs : CapTryHeur(p)
  \/ \E p \in Procs : CapTryUser(p)
  \/ \E p \in Procs : CapSave(p)
  \/ \E p \in Procs : CapInsert(p)
  \/ \E p \in Procs : CapUser(p)
  \/ \E p \in Procs : CapUserSave(p)
  \/ \E p \in Procs : nops < MaxRaceOps /\ StartWebhook(p, "X1") /\ NoReference("X1")
  \/ WhSteps

SpecOwners == Init /\ [][NextOwners]_vars

(* C11: I5 - a row whose owner is set keeps that owner in every step. *)
C11_OwnerNeverChanges ==
  [][\A r \in rows : r.user_id # NoUser
        => \A r2 \in rows' : r2.id = r.id => r2.user_id = r.user_id]_vars

(* user 2 has captured the order that is attached to a row of user 1 *)
C11_CapturedByOtherUser ==
  \E p \in Procs, r \in rows :
    /\ proc[p].op = "capture" /\ proc[p].pc = "cap_user"
    /\ r.id = proc[p].snap.id /\ r.user_id # NoUser /\ r.user_id # proc[p].uid
    /\ r.captureId # NoCapture

(* C12: when captureOrder of user u has written the row it located and that
   row had no owner, the row's owner is u. *)
C12_CaptureFillsOwner ==
  [][\A p \in Procs :
       ( /\ proc[p].op = "capture" /\ proc[p].pc = "cap_save"
         /\ proc[p].snap.user_id = NoUser
         /\ SaveOk(proc[p].snap)
         /\ proc'[p].pc # "cap_save" )
       => \E r \in rows' : r.id = proc[p].snap.id /\ r.user_id = proc[p].uid]_vars


(* ---------------------------------------------------------------------- *)
(* The resubmit: user 1 posts pending payments for Pro one after the other, *)
(* with or without a client token, at the client's time or the server's.    *)
(* ---------------------------------------------------------------------- *)
NextResubmit ==
  \/ Tick
  \/ \E b \in BillingInputs, t \in TokenInputs, c \in CreatedAtInputs :
        StartCreatePending(1, 1, "Pro", b, 0, t, c)
  \/ CpUpsert(1)
  \/ CpFind2(1)
  \/ CpInsert(1)
  \/ CpReread(1)

SpecResubmit == Init /\ [][NextResubmit]_vars

(* C13: a client token is held by at most one row: provisionalCreate with a
   token that a row of the same owner already holds inserts no new row,
   also when the call falls into another minute bucket. *)
C13_TokenHeldByOneRow ==
  \A r1 \in rows, r2 \in rows :
    ( /\ r1.token # NoToken /\ r1.token = r2.token /\ r1.user_id = r2.user_id
      /\ r1.plan = r2.plan /\ r1.billing = r2.billing )
      => r1.id = r2.id


(* ---------------------------------------------------------------------- *)
(* The settled bucket: user 1 posts pending payments (Pro, monthly) and     *)
(* captures order X1, one request after the other.                          *)
(* ---------------------------------------------------------------------- *)
NextSettledBucket ==
  \/ Tick
  \/ \E c \in CreatedAtInputs : StartCreatePending(1, 1, "Pro", "monthly", 0, NoToken, c)
  \/ CpFind2(1)
  \/ CpInsert(1)
  \/ CpReread(1)
  \/ CpDup(1)
  \/ CpFallback(1)
  \/ StartCapture(1, 1, "X1") /\ NoReference("X1")
  \/ CapFind(1)
  \/ CapTryOrder(1)
  \/ CapTryHeur(1)
  \/ CapTryUser(1)
  \/ CapSave(1)
  \/ CapInsert(1)
  \/ CapUser(1)
  \/ CapUserSave(1)

SpecSettledBucket == Init /\ [][NextSettledBucket]_vars

(* C14: a provisionalCreate whose insert was refused by a unique index
   returns without error, and the row it returns occupies the caller's
   (owner, plan, billing period, minute bucket). *)
C14_RefusedInsertReturnsOccupant ==
  [][\A p \in Procs :
       ( /\ proc[p].op = "createPending"
         /\ proc[p].pc \in {"cp_dup", "cp_fallback"}
         /\ proc'[p].pc = "done" )
       => /\ proc'[p].res = "200"
          /\ \E r \in rows : /\ r.id = proc'[p].ret
                             /\ r.user_id = proc[p].uid
                             /\ r.plan = proc[p].plan
                             /\ r.billing = billingColumn(proc[p].billing)
                             /\ r.minute = setSeconds0(proc[p].cAt)]_vars


(* the owned pending rows in the minute bucket of the capture with its
   amount *)
HeuristicMatches(g) ==
  {r \in rows : /\ r.user_id # NoUser
                /\ r.minute = setSeconds0(gwTime(g))
                /\ r.amount = webhookAmount(g)
                /\ r.status \in pendingStatuses}

(* C15: when two or more pending rows share the capture's minute bucket and
   amount, the webhook's heuristic reports no match: the handler goes on to
   insert an anonymous row and modifies none of the candidates. *)
C15_AmbiguousIsNoMatch ==
  [][\A p \in Procs :
       ( /\ proc[p].op = "webhook" /\ proc[p].pc = "wh_heur"
         /\ Cardinality(HeuristicMatches(proc[p].g)) >= 2 )
       => proc'[p].pc \in {"wh_heur", "wh_insert"}]_vars

(* ---------------------------------------------------------------------- *)
(* One checkout while the gateway misbehaves: its calls fail or answer     *)
(* with an object that has neither captures nor status                     *)
(* ---------------------------------------------------------------------- *)

NextGatewayTrouble ==
  \/ Tick
  \/ nops < MaxOps /\ StartCreatePending(1, 1, "Pro", "monthly", 0, NoToken, NoTime)
  \/ CpFind2(1)
  \/ CpInsert(1)
  \/ CpReread(1)
  \/ CpDup(1)
  \/ CpFallback(1)
  \/ \E id \in 1..nextId : nops < MaxOps /\ StartAttachOrder(1, 1, id, "X1", NoRaw)
  \/ AoSave(1)
  \/ nops < MaxOps /\ StartCapture(1, 1, "X1") /\ NoReference("X1")
  \/ nops < MaxOps /\ StartCaptureMalformed(1, 1, "X1")
  \/ CapFind(1)
  \/ CapTryOrder(1)
  \/ CapTryHeur(1)
  \/ CapTryUser(1)
  \/ CapSave(1)
  \/ CapInsert(1)
  \/ CapUser(1)
  \/ CapUserSave(1)
  \/ nops < MaxOps /\ StartWebhook(1, "X1") /\ NoReference("X1")
  \/ nops < MaxOps /\ StartWebhookMalformed(1, "X1")
  \/ WhFind(1)
  \/ WhSave(1)
  \/ WhHeur(1)
  \/ WhHSave(1)
  \/ WhUser(1)
  \/ WhUserSave(1)
  \/ WhInsert(1)

SpecGatewayTrouble == Init /\ [][NextGatewayTrouble]_vars

(* the call of process p got no usable answer from the gateway *)
GatewayTrouble(p) ==
  /\ proc'[p].op \in {"capture", "webhook"}
  /\ \/ proc'[p].g.status = NoStatus
     \/ proc'[p].pc = "done" /\ proc'[p].err = "gateway"

(* C16: a capture or a webhook whose gateway call failed or answered with an
   object of unexpected shape (no capture, no status) leaves no row settled
   that was not settled before, changes no user's plan or expiry, and a
   capture ends with a failure for its caller *)
C16_GatewayTroubleSettlesNothing ==
  [][\A p \in Procs :
       (GatewayTrouble(p) /\ proc'[p] # proc[p])
       => /\ \A r2 \in rows' :
               r2.status \in finalStatuses
               => \E r \in rows : r.id = r2.id /\ r.status = r2.status
          /\ users' = users
          /\ (proc'[p].op = "capture" /\ proc'[p].pc = "done")
               => proc'[p].res # "200"]_vars

(* ---------------------------------------------------------------------- *)
(* getAccessInfo over ledgers and users of every kind: rows of either      *)
(* user or of nobody in each status, plans with past and future expiry     *)
(* ---------------------------------------------------------------------- *)
AccessClock == 60
AccessExpiries == {NoTime, 0, AccessClock + Days30}
AccessStatuses == {"pending", "completed", "denied", "cancelled"}

AccessRow(i, owner, status) ==
  [NoRow EXCEPT !.id = i, !.user_id = owner, !.plan = "Pro",
                !.billing = "monthly", !.amount = mapPlanPrice("Pro", "monthly"),
                !.status = status, !.createdAt = (i - 1) * TickSeconds,
                !.minute = (i - 1) * TickSeconds]

AccessLedgers ==
  {{}} \cup
  {{AccessRow(1, o, s)} : o \in Users \cup {NoUser}, s \in AccessStatuses} \cup
  {{AccessRow(1, o[1], s[1]), AccessRow(2, o[2], s[2])} :
     o \in [{1, 2} -> Users], s \in [{1, 2} -> AccessStatuses]}

InitAccess ==
  /\ rows \in AccessLedgers
  /\ nextId = 3
  /\ users \in [Users -> [plan : {"Free", "Pro"}, expiry : AccessExpiries]]
  /\ gw = [o \in Orders |-> NoG]
  /\ proc = [p \in Procs |-> IdleProc]
  /\ now = AccessClock
  /\ nops = 0

NextAccess ==
  \/ \E uid \in Users \cup {NoUser} : nops < MaxRaceOps /\ CheckAccess(1, uid)
  \/ AccFound(1)
  \/ AccPending(1)

SpecAccess == InitAccess /\ [][NextAccess]_vars

(* C17: for an existing user getAccessInfo answers allowed = TRUE on plan
   Free, and otherwise allowed = (plan_expiry is in the future) or (a settled
   row of that user exists); other owners' rows and rows that are pending,
   denied or cancelled do not count *)
C17_AccessRule ==
  \A p \in Procs :
    (proc[p].op = "checkAccess" /\ proc[p].pc = "done" /\ proc[p].uid \in Users)
    => LET u == proc[p].uid
       IN proc[p].access.allowed =
            ( \/ users[u].plan = "Free"
              \/ users[u].expiry # NoTime /\ users[u].expiry > now
              \/ \E r \in rows : r.user_id = u /\ r.status \in finalStatuses )

(* a paying user whose plan has run out is refused although another user has
   a settled row and the user has a pending and a denied one *)
C17_RefusedDespiteOthersRows ==
  \E p \in Procs :
    /\ proc[p].op = "checkAccess" /\ proc[p].pc = "done"
    /\ proc[p].uid \in Users
    /\ users[proc[p].uid].plan = "Pro"
    /\ users[proc[p].uid].expiry = 0
    /\ \E r \in rows : r.user_id # proc[p].uid /\ r.status \in finalStatuses
    /\ \E r \in rows : r.user_id = proc[p].uid /\ r.status \in {"pending", "denied"}
    /\ ~proc[p].access.allowed

(* ---------------------------------------------------------------------- *)
(* One payment of user 1 settled by a capture of either user or by the     *)
(* gateway's event, with or without the order attached                     *)
(* ---------------------------------------------------------------------- *)
NextSettle ==
  \/ Tick
  \/ nops < MaxOps /\ StartCreatePending(1, 1, "Pro", "monthly", 0, NoToken, NoTime)
  \/ CpFind2(1)
  \/ CpInsert(1)
  \/ CpReread(1)
  \/ CpDup(1)
  \/ CpFallback(1)
  \/ \E id \in 1..nextId : nops < MaxOps /\ StartAttachOrder(1, 1, id, "X1", NoRaw)
  \/ AoSave(1)
  \/ \E uid \in Users : nops < MaxOps /\ StartCapture(1, uid, "X1") /\ NoReference("X1")
  \/ CapFind(1)
  \/ CapTryOrder(1)
  \/ CapTryHeur(1)
  \/ CapTryUser(1)
  \/ CapSave(1)
  \/ CapInsert(1)
  \/ CapUser(1)
  \/ CapUserSave(1)
  \/ nops < MaxOps /\ StartWebhook(1, "X1") /\ NoReference("X1")
  \/ WhFind(1)
  \/ WhSave(1)
  \/ WhHeur(1)
  \/ WhHSave(1)
  \/ WhUser(1)
  \/ WhUserSave(1)
  \/ WhInsert(1)

SpecSettle == Init /\ [][NextSettle]_vars

(* the entitlement a settled row grants when the operation ends *)
GrantOf(r) ==
  [plan |-> r.plan,
   expiry |-> IF r.billing = "yearly" THEN now + Days365 ELSE now + Days30]

(* C18: a capture or a webhook that settles a row of a known owner for the
   first time has, when it ends, set the owner's plan to the row's plan and
   the owner's plan_expiry to now + 30 days (monthly) or now + 1 year
   (yearly) *)
C18_SettlingRefreshesOwner ==
  [][\A p \in Procs :
       ( /\ proc[p].op \in {"capture", "webhook"}
         /\ proc[p].pc # "done" /\ proc'[p].pc = "done" )
       => \A r \in rows' :
            ( /\ r.id = proc[p].snap.id
              /\ r.user_id # NoUser
              /\ r.billing \in {"monthly", "yearly"}
              /\ r.status \in finalStatuses
              /\ proc[p].prev \notin finalStatuses )
            => users'[r.user_id] = GrantOf(r)]_vars

(* ---------------------------------------------------------------------- *)
(* The attach repeated: a pending payment or none, then the same attach    *)
(* request twice, one after the other                                      *)
(* ---------------------------------------------------------------------- *)
AtCreate ==
  /\ nops = 0
  /\ \/ \E uid \in Users, b \in BillingInputs, c \in CreatedAtInputs :
           StartCreatePending(1, uid, "Pro", b, 0, NoToken, c)
     \/ StartWebhookIgnored(1)

(* attachOrderToPayment with the payment's id, or attachOrderPublic with
   the order's amount and the client's time *)
AtAttachOrder(id) ==
  \E r \in rows : r.id = id /\ StartAttachOrder(1, r.user_id, r.id, "X1", NoRaw)

AtAttachPublic ==
  \E c \in SubmitTimes : StartAttachPublic(1, "X1", mapPlanPrice("Pro", "monthly"), c, NoToken, NoTime)

AtFirst ==
  /\ nops = 1 /\ proc[1].pc = "done"
  /\ \/ \E id \in 1..nextId : AtAttachOrder(id)
     \/ AtAttachPublic

AtSecond ==
  /\ nops = 2 /\ PreviousOk
  /\ \/ proc[1].op = "attachOrder" /\ AtAttachOrder(proc[1].ret)
     \/ proc[1].op = "attachPublic" /\ AtAttachPublic

NextAttachTwice ==
  \/ Tick
  \/ AtCreate
  \/ CpFind2(1)
  \/ CpInsert(1)
  \/ CpReread(1)
  \/ AtFirst
  \/ AtSecond
  \/ AoSave(1)
  \/ ApSave(1)
  \/ ApInsert(1)

SpecAttachTwice == Init /\ [][NextAttachTwice]_vars

(* C19: the second of two equal attach calls returns without error, inserts
   no row and leaves every row's order id and status as they were after the
   first call *)
C19_SecondAttachIsNoOp ==
  [][nops = 3 =>
       /\ Cardinality(rows') = Cardinality(rows)
       /\ \A r \in rows : \E r2 \in rows' :
            r2.id = r.id /\ r2.orderId = r.orderId /\ r2.status = r.status
       /\ proc'[1].pc = "done" => proc'[1].res = "200"]_vars

(* C20: whatever the event and whatever fails while it is processed - the
   gateway fetch or the store, uniqueness violations included - the webhook
   ends without a failure for its sender: the answer is a success *)
C20_WebhookAlwaysAcknowledged ==
  \A p \in Procs :
    (proc[p].op \in {"webhook", "webhookIgnored"} /\ proc[p].pc = "done")
    => proc[p].res = "200"

(* a delivery whose insert was refused by a unique index has ended *)
C20_StoreRefusalSwallowed ==
  \E p \in Procs :
    /\ proc[p].op = "webhook" /\ proc[p].pc = "done"
    /\ proc[p].err = "unique" /\ proc[p].res = "200"
    /\ \E r \in rows : r.orderId = "X1"

(* C21: the authenticated attach-order answers with a 4xx failure when the
   payment does not exist or belongs to another user and when the order id
   is already bound to another row; a 5xx answer stands for any other
   failure only *)
C21_AttachFailuresAre4xx ==
  \A p \in Procs :
    (proc[p].op = "attachOrder" /\ proc[p].pc = "done")
    => /\ proc[p].err \in {"notfound", "unique"} => proc[p].res \in {"400", "404", "409"}
       /\ proc[p].res = "500" => proc[p].err \notin {"none", "notfound", "unique"}

(* ---------------------------------------------------------------------- *)
(* Deleting payments: pending rows of user 1, captures that settle or deny *)
(* them, and delete requests of either user, one request after the other   *)
(* ---------------------------------------------------------------------- *)
NextDelete ==
  \/ Tick
  \/ nops < MaxOps /\ StartCreatePending(1, 1, "Pro", "monthly", 0, NoToken, NoTime)
  \/ CpFind2(1)
  \/ CpInsert(1)
  \/ CpReread(1)
  \/ CpDup(1)
  \/ CpFallback(1)
  \/ nops < MaxOps /\ StartCapture(1, 1, "X1") /\ NoReference("X1")
  \/ CapFind(1)
  \/ CapTryOrder(1)
  \/ CapTryHeur(1)
  \/ CapTryUser(1)
  \/ CapSave(1)
  \/ CapInsert(1)
  \/ CapUser(1)
  \/ CapUserSave(1)
  \/ \E uid \in Users, id \in 1..nextId : nops < MaxOps /\ StartDeletePayment(1, uid, id)
  \/ DelDelete(1)
  \/ \E uid \in Users : nops < MaxOps /\ ClearPending(1, uid)

SpecDelete == Init /\ [][NextDelete]_vars

(* C22: a step of deletePaymentForUser removes a row only when the row is
   the one the request names, is owned by the caller and is in a non-terminal
   status; requests aimed at a terminal row or at another user's row leave
   the ledger as it is *)
C22_DeleteOnlyOwnPending ==
  [][\A p \in Procs :
       (proc[p].op = "deletePayment" /\ proc[p].pc # "done" /\ proc'[p] # proc[p])
       => \A r \in rows :
            (\A r2 \in rows' : r2.id # r.id)
            => /\ r.status \notin TerminalStatuses
               /\ proc[p].target = r.id
               /\ proc[p].uid = r.user_id]_vars

(* a row the settlement signal (order o, gateway answer g) correlates with:
   by order id, by client token, or by minute bucket and amount *)
Correlated(r, o, g) ==
  \/ r.orderId = o
  \/ g.ref # NoToken /\ r.token = g.ref
  \/ r.minute = setSeconds0(gwTime(g)) /\ r.amount = g.amount

(* C23: a capture or a webhook whose order id, token and time+amount pair
   match no existing row modifies no existing row; it can only insert *)
C23_UncorrelatedSignalOnlyInserts ==
  [][\A p \in Procs :
       ( /\ proc[p].op \in {"capture", "webhook"} /\ proc[p].pc # "done"
         /\ \A r \in rows : ~Correlated(r, proc[p].order, proc[p].g) )
       => \A r \in rows : r \in rows']_vars

(* the row an operation has just selected by minute bucket and amount *)
HeuristicallySelected(p, r) ==
  /\ r.id = proc'[p].snap.id
  /\ \/ proc[p].op = "capture" /\ proc[p].pc = "cap_try_heur" /\ proc'[p].pc = "cap_save"
     \/ proc[p].op = "webhook" /\ proc[p].pc = "wh_heur" /\ proc'[p].pc = "wh_hsave"
     \/ proc[p].pc = "done" /\ proc'[p].op = "attachPublic" /\ proc'[p].pc = "ap_save"

SignalMinute(q) ==
  IF q.op = "attachPublic" THEN setSeconds0(q.cAt) ELSE setSeconds0(gwTime(q.g))

SignalAmount(q) == IF q.op = "attachPublic" THEN q.amount ELSE q.g.amount

(* C24: a row selected by the time+amount heuristic (webhook, capture,
   public attach) has the signal's minute bucket and amount, a pending-like
   status and an owner; a settled row is never selected *)
C24_HeuristicSelectsOwnedPending ==
  [][\A p \in Procs : \A r \in rows :
       HeuristicallySelected(p, r)
       => /\ r.minute = SignalMinute(proc'[p])
          /\ r.amount = SignalAmount(proc'[p])
          /\ r.status \in pendingStatuses
          /\ r.user_id # NoUser]_vars

(* C25: a capture requested by one user modifies no row owned by another
   user and never derives the caller's plan or plan_expiry from such a row,
   whichever lookup located the row *)
C25_CaptureLeavesOthersRows ==
  [][\A p \in Procs :
       (proc[p].op = "capture" /\ proc[p].pc # "done" /\ proc'[p] # proc[p])
       => /\ \A r \in rows :
               (r.user_id # NoUser /\ r.user_id # proc[p].uid) => r \in rows'
          /\ users' # users
               => ~(proc[p].snap.user_id # NoUser /\ proc[p].snap.user_id # proc[p].uid)]_vars

(* C26: a user's plan and plan_expiry change only in a step of a capture or
   a webhook for which the gateway reported a completed capture and whose
   row is owned by that user and settled; a gateway status of pending,
   approved or denied changes no user *)
C26_PlanOnlyFromSettledOwnRow ==
  [][\A u \in Users :
       users'[u] # users[u]
       => \E p \in Procs : \E r \in rows :
            /\ proc[p].op \in {"capture", "webhook"} /\ proc'[p] # proc[p]
            /\ proc[p].g.status = "COMPLETED"
            /\ r.id = proc[p].snap.id
            /\ r.user_id = u
            /\ r.status \in finalStatuses]_vars

(* ---------------------------------------------------------------------- *)
(* Settlement race: captures of either user and capture events for order   *)
(* X1 arrive concurrently while the ledger has no row for X1               *)
(* ---------------------------------------------------------------------- *)
NextSettleRace ==
  \/ Tick
  \/ \E p \in Procs, uid \in Users :
        nops < MaxRaceOps /\ StartCapture(p, uid, "X1") /\ NoReference("X1")
  \/ \E p \in Procs : CapFind(p)
  \/ \E p \in Procs : CapTryOrder(p)
  \/ \E p \in Procs : CapTryHeur(p)
  \/ \E p \in Procs : CapTryUser(p)
  \/ \E p \in Procs : CapSave(p)
  \/ \E p \in Procs : CapInsert(p)
  \/ \E p \in Procs : CapUser(p)
  \/ \E p \in Procs : CapUserSave(p)
  \/ \E p \in Procs : nops < MaxRaceOps /\ StartWebhook(p, "X1") /\ NoReference("X1")
  \/ \E p \in Procs : WhFind(p)
  \/ \E p \in Procs : WhSave(p)
  \/ \E p \in Procs : WhHeur(p)
  \/ \E p \in Procs : WhInsert(p)

SpecSettleRace == Init /\ [][NextSettleRace]_vars

(* C27: settlement calls for one order that race on an empty ledger, and
   that the gateway answered, all end without a failure for their caller
   and leave exactly one row with that order id *)
C27_RacingSettlementsBothSucceed ==
  ( /\ AllDone
    /\ \A p \in Procs : proc[p].op \in {"capture", "webhook"} /\ proc[p].err # "gateway" )
  => /\ \A p \in Procs : proc[p].res = "200"
     /\ Cardinality({r \in rows : r.orderId = "X1"}) = 1

(* C28: when a completed capture returns successfully, some row holds the captured
   order id together with the gateway's capture id, whichever lookup
   located the row *)
C28_CaptureBindsOrderId ==
  [][\A p \in Procs :
       ( /\ proc[p].op = "capture" /\ proc[p].pc # "done"
         /\ proc[p].g.status = "COMPLETED"
         /\ proc'[p].pc = "done" /\ proc'[p].res = "200" )
       => \E r \in rows' :
            /\ r.orderId = proc[p].order
            /\ r.captureId = gwCaptureId(proc[p].order, proc[p].g)]_vars

(* ---------------------------------------------------------------------- *)
(* The unauthenticated attach with a token: user 1's provisional rows hold *)
(* token t1; the browser posts attach-order-public with t1, with or        *)
(* without an amount in the raw payload and a client time                  *)
(* ---------------------------------------------------------------------- *)
NextTokenAttach ==
  \/ Tick
  \/ \E c \in CreatedAtInputs :
        nops < MaxOps /\ StartCreatePending(1, 1, "Pro", "monthly", 0, "t1", c)
  \/ CpUpsert(1)
  \/ CpFind2(1)
  \/ CpInsert(1)
  \/ CpReread(1)
  \/ \E amt \in PublicAmounts, c \in CreatedAtInputs, raw \in RawInputs :
        /\ nops < MaxOps
        /\ amt # 0 => raw # NoRaw
        /\ StartAttachPublic(1, "X1", amt, c, "t1", raw)
  \/ ApSave(1)
  \/ ApInsert(1)

SpecTokenAttach == Init /\ [][NextTokenAttach]_vars

(* C29: a public attach carrying a token that a provisional row holds binds
   the order id to that row and inserts no row, whatever amount the raw
   payload carries *)
C29_PublicAttachFindsToken ==
  [][\A p \in Procs :
       ( /\ proc[p].op = "attachPublic" /\ proc[p].pc # "done"
         /\ proc'[p].pc = "done"
         /\ proc[p].token # NoToken
         /\ \E r \in rows : /\ r.token = proc[p].token /\ r.user_id # NoUser
                            /\ r.status \in pendingStatuses )
       => /\ Cardinality(rows') = Cardinality(rows)
          /\ \E r \in rows' : /\ r.token = proc[p].token /\ r.user_id # NoUser
                              /\ r.orderId = proc[p].order]_vars

(* ---------------------------------------------------------------------- *)
(* The client's amount: user 1 posts a pending payment with an amount of   *)
(* its own (5.00) or without one, attaches order X1, for which the gateway *)
(* reports its own amount; capture and webhook settle it                   *)
(* ---------------------------------------------------------------------- *)
ClientAmounts == {0, 500}

NextClientAmount ==
  \/ Tick
  \/ \E amt \in ClientAmounts :
        nops < MaxOps /\ StartCreatePending(1, 1, "Pro", "monthly", amt, NoToken, NoTime)
  \/ CpFind2(1)
  \/ CpInsert(1)
  \/ CpReread(1)
  \/ CpDup(1)
  \/ CpFallback(1)
  \/ \E id \in 1..nextId : nops < MaxOps /\ StartAttachOrder(1, 1, id, "X1", NoRaw)
  \/ AoSave(1)
  \/ nops < MaxOps /\ StartCapture(1, 1, "X1") /\ NoReference("X1")
  \/ CapFind(1)
  \/ CapTryOrder(1)
  \/ CapTryHeur(1)
  \/ CapTryUser(1)
  \/ CapSave(1)
  \/ CapInsert(1)
  \/ CapUser(1)
  \/ CapUserSave(1)
  \/ nops < MaxOps /\ StartWebhook(1, "X1") /\ NoReference("X1")
  \/ WhFind(1)
  \/ WhSave(1)
  \/ WhHeur(1)
  \/ WhHSave(1)
  \/ WhUser(1)
  \/ WhUserSave(1)
  \/ WhInsert(1)

SpecClientAmount == Init /\ [][NextClientAmount]_vars

(* C30: a row that becomes settled through a capture or a webhook carries
   the amount the gateway reported for the order, not the amount the client
   supplied with the pending payment, also when the webhook found the row by
   order id *)
C30_SettledAmountIsGateways ==
  [][\A r2 \in rows' :
       ( /\ r2.status \in finalStatuses
         /\ ~\E r \in rows : r.id = r2.id /\ r.status \in finalStatuses )
       => \E p \in Procs :
            /\ proc[p].op \in {"capture", "webhook"} /\ proc[p].pc # "done"
            /\ r2.amount = proc[p].g.amount]_vars

(* ---------------------------------------------------------------------- *)
(* Notifications: user 1's pending payment, a capture of order X1, and     *)
(* events of every shape delivered one after the other                     *)
(* ---------------------------------------------------------------------- *)
NextEvents ==
  \/ Tick
  \/ nops < MaxOps /\ StartCreatePending(1, 1, "Pro", "monthly", 0, NoToken, NoTime)
  \/ CpFind2(1)
  \/ CpInsert(1)
  \/ CpReread(1)
  \/ CpDup(1)
  \/ CpFallback(1)
  \/ nops < MaxOps /\ StartCapture(1, 1, "X1") /\ NoReference("X1")
  \/ CapFind(1)
  \/ CapTryOrder(1)
  \/ CapTryHeur(1)
  \/ CapTryUser(1)
  \/ CapSave(1)
  \/ CapInsert(1)
  \/ CapUser(1)
  \/ CapUserSave(1)
  \/ \E ev \in Events :
        /\ nops < MaxOps /\ HandleWebhookEvent(1, ev)
        /\ \A o \in Orders : NoReference(o)
  \/ WhFind(1)
  \/ WhSave(1)
  \/ WhHeur(1)
  \/ WhHSave(1)
  \/ WhUser(1)
  \/ WhUserSave(1)
  \/ WhInsert(1)

SpecEvents == Init /\ [][NextEvents]_vars

SameButStatusAmount(ev1, ev2) ==
  ev1.type = ev2.type /\ ev1.order = ev2.order /\ ev1.rid = ev2.rid

(* C31: what a capture-related delivery does to the ledger depends on the
   order re-fetched from the gateway only: a step taken for one event is the
   same step for every event that differs from it in the payload's status
   or amount alone *)
C31_PayloadStatusAmountIgnored ==
  [][nops' # nops =>
       \A ev1 \in Events :
         HandleWebhookEvent(1, ev1)
         => \A ev2 \in Events :
              SameButStatusAmount(ev1, ev2) => HandleWebhookEvent(1, ev2)]_vars

(* C32: every row's minute bucket is the row's created_at truncated to the
   minute, whichever operation created or changed the row *)
C32_BucketIsTruncatedCreatedAt ==
  \A r \in rows : r.minute = setSeconds0(r.createdAt)

(* ---------------------------------------------------------------------- *)
(* Attach with metadata: pending payments of either user, then             *)
(* attach-order requests without raw, with raw lacking __meta.createdAt,   *)
(* or with raw that carries a client time                                  *)
(* ---------------------------------------------------------------------- *)
MetaInputs == RawInputs \cup SubmitTimes

NextAttachMeta ==
  \/ Tick
  \/ \E uid \in Users, b \in BillingInputs :
        nops < MaxOps /\ StartCreatePending(1, uid, "Pro", b, 0, NoToken, NoTime)
  \/ CpFind2(1)
  \/ CpInsert(1)
  \/ CpReread(1)
  \/ \E uid \in Users, id \in 1..nextId, raw \in MetaInputs :
        nops < MaxOps /\ StartAttachOrder(1, uid, id, "X1", raw)
  \/ AoSave(1)

SpecAttachMeta == Init /\ [][NextAttachMeta]_vars

(* C33: the authenticated attach changes the target row's order id and
   metadata only: status, owner, plan, billing period, amount, created_at
   and minute bucket of the target, and every other row, stay as they
   were, whatever metadata the client sends *)
C33_AttachFrame ==
  [][\A p \in Procs :
       (proc[p].op = "attachOrder" /\ proc[p].pc # "done" /\ proc'[p].pc = "done")
       => \A r \in rows : \E r2 \in rows' :
            /\ r2.id = r.id
            /\ r.id # proc[p].target => r2 = r
            /\ r2.status = r.status /\ r2.user_id = r.user_id
            /\ r2.plan = r.plan /\ r2.billing = r.billing
            /\ r2.amount = r.amount
            /\ r2.createdAt = r.createdAt /\ r2.minute = r.minute]_vars

(* ---------------------------------------------------------------------- *)
(* Identifiers of a settled row: user 1's pending payment, two gateway     *)
(* orders, attach and capture requests for either, one after the other     *)
(* ---------------------------------------------------------------------- *)
NextSettledIds ==
  \/ Tick
  \/ nops < MaxOps /\ StartCreatePending(1, 1, "Pro", "monthly", 0, NoToken, NoTime)
  \/ CpFind2(1)
  \/ CpInsert(1)
  \/ CpReread(1)
  \/ CpDup(1)
  \/ CpFallback(1)
  \/ \E id \in 1..nextId, o \in Orders :
        nops < MaxOps /\ StartAttachOrder(1, 1, id, o, NoRaw)
  \/ AoSave(1)
  \/ \E o \in Orders : nops < MaxOps /\ StartCapture(1, 1, o) /\ NoReference(o)
  \/ CapFind(1)
  \/ CapTryOrder(1)
  \/ CapTryHeur(1)
  \/ CapTryUser(1)
  \/ CapSave(1)
  \/ CapInsert(1)
  \/ CapUser(1)
  \/ CapUserSave(1)

SpecSettledIds == Init /\ [][NextSettledIds]_vars

(* C34: the order id and the capture id a settled row holds are never
   replaced by other identifiers *)
C34_SettledIdsFrozen ==
  [][\A r \in rows : \A r2 \in rows' :
       (r.status \in finalStatuses /\ r2.id = r.id)
       => /\ r.orderId # NoOrder => r2.orderId = r.orderId
          /\ r.captureId # NoCapture => r2.captureId = r.captureId]_vars

(* C35: the row createPendingPayment returns is pending-like and has the
   requested owner, plan, billing period and minute bucket *)
C35_ReturnedRowIsRequested ==
  [][\A p \in Procs :
       ( /\ proc[p].op = "createPending" /\ proc[p].pc # "done"
         /\ proc'[p].pc = "done" /\ proc'[p].res = "200" )
       => \E r \in rows' :
            /\ r.id = proc'[p].ret
            /\ r.status \in pendingStatuses
            /\ r.user_id = proc[p].uid
            /\ r.plan = proc[p].plan
            /\ r.billing = billingColumn(proc[p].billing)
            /\ r.minute = setSeconds0(proc[p].cAt)]_vars

(* C36: submits of one owner, plan and minute bucket that all carry an
   empty billing period (stored as null) leave exactly one row, whether
   they run one after the other or concurrently *)
C36_EmptyBillingDeduplicated ==
  (AllDone /\ nops >= 2 /\ \A r \in rows : r.billing = NullStr)
    => Cardinality(rows) = 1

(* ---------------------------------------------------------------------- *)
(* Order creation next to a provisional row: user 1 posts pending payments *)
(* and create-order requests, one after the other                          *)
(* ---------------------------------------------------------------------- *)
NextCreateOrder ==
  \/ Tick
  \/ \E pl \in PlanInputs, b \in BillingInputs :
        nops < MaxOps /\ StartCreatePending(1, 1, pl, b, 0, NoToken, NoTime)
  \/ CpFind2(1)
  \/ CpInsert(1)
  \/ CpReread(1)
  \/ \E pl \in PlanInputs, b \in BillingInputs :
        nops < MaxOps /\ StartCreateOrder(1, 1, pl, b)
  \/ CoGateway(1)
  \/ CoUser(1)
  \/ CoInsert(1)
  \/ CoSave(1)

SpecCreateOrder == Init /\ [][NextCreateOrder]_vars

(* C37: a createOrder call that has created an order at the gateway ends
   successfully and the ledger then holds a row with that order id *)
C37_GatewayOrderHasRow ==
  [][\A p \in Procs :
       ( /\ proc[p].op = "createOrder"
         /\ proc[p].pc \in {"co_insert", "co_save"}
         /\ proc'[p].pc = "done" )
       => /\ proc'[p].res = "200"
          /\ \E r \in rows' : r.orderId = proc[p].order]_vars

(* ---------------------------------------------------------------------- *)
(* GET :id and the lookup by any identifier:                               *)
(* PaymentsService.getPaymentForUser, findPaymentForUserByAny              *)
(* ---------------------------------------------------------------------- *)
Identifiers == {"", "1", "2", "X1", "Y1", "t1"}

(* Number(identifier); 0 stands for NaN, no row has id 0 *)
Number(identifier) ==
  CASE identifier = "1" -> 1
    [] identifier = "2" -> 2
    [] OTHER -> 0

(* the rows getPaymentForUser can return: the row of that id when the caller
   owns it; NotFound otherwise *)
getPaymentForUser(uid, paymentId) ==
  {r \in rows : r.id = paymentId /\ r.user_id = uid}

(* steps 1-4: the row found by a column is returned to its owner, and to
   anybody when it has no owner but a payer e-mail address *)
ColumnAccepts(r, uid) ==
  r.user_id = uid \/ (r.user_id = NoUser /\ r.payerEmail)

(* step 5, the scan of raw: the row is returned to its owner and, when it has
   a payer e-mail address, to anybody *)
RawAccepts(r, uid) == r.user_id = uid \/ r.payerEmail

(* findOne over the candidates S: the rows a step can return, and whether the
   step can pass on to the next one *)
StepReturns(S, uid) == {r \in S : ColumnAccepts(r, uid)}
StepPasses(S, uid) == S = {} \/ \E r \in S : ~ColumnAccepts(r, uid)

(* one of the lookups by a column: the row is returned or the next lookup is
   due *)
FpLookup(p, q, S, nextPc) ==
  \/ \E r \in StepReturns(S, q.uid) :
        proc' = [proc EXCEPT ![p] =
          [Done(q, "200", "none", r.id) EXCEPT !.uid = q.uid, !.token = q.token]]
  \/ /\ StepPasses(S, q.uid)
     /\ proc' = [proc EXCEPT ![p] = [q EXCEPT !.pc = nextPc]]

GetPayment(p, uid, paymentId) ==
  LET base == [IdleProc EXCEPT !.op = "getPayment"]
  IN /\ CanStart(p)
     /\ nops' = nops + 1
     /\ IF getPaymentForUser(uid, paymentId) # {}
          THEN \E r \in getPaymentForUser(uid, paymentId) :
                 proc' = [proc EXCEPT ![p] =
                   [Done(base, "200", "none", r.id) EXCEPT !.uid = uid]]
          ELSE proc' = [proc EXCEPT ![p] =
                   [Done(base, "404", "notfound", 0) EXCEPT !.uid = uid]]
     /\ UNCHANGED <<rows, nextId, users, gw, now>>

(* findPaymentForUserByAny up to its first lookup: by id when the identifier
   is a number, by paypal_order_id otherwise; null for an empty identifier *)
FindPayment(p, uid, identifier) ==
  LET base == [IdleProc EXCEPT !.op = "findByAny", !.uid = uid,
                               !.token = identifier]
  IN /\ CanStart(p)
     /\ nops' = nops + 1
     /\ IF identifier = ""
          THEN proc' = [proc EXCEPT ![p] =
                 [Done(base, "200", "none", 0) EXCEPT !.uid = uid]]
        ELSE IF Number(identifier) # 0
          THEN FpLookup(p, base, {r \in rows : r.id = Number(identifier)}, "fp_order")
        ELSE FpLookup(p, base, {r \in rows : r.orderId = identifier}, "fp_capture")
     /\ UNCHANGED <<rows, nextId, users, gw, now>>

(* 2) paypal_order_id, after a lookup by id *)
FpOrder(p) ==
  LET q == proc[p]
  IN /\ q.op = "findByAny" /\ q.pc = "fp_order"
     /\ FpLookup(p, q, {r \in rows : r.orderId = q.token}, "fp_capture")
     /\ UNCHANGED <<rows, nextId, users, gw, now, nops>>

(* 3) paypal_capture_id *)
FpCapture(p) ==
  LET q == proc[p]
  IN /\ q.op = "findByAny" /\ q.pc = "fp_capture"
     /\ FpLookup(p, q, {r \in rows : r.captureId = q.token}, "fp_token")
     /\ UNCHANGED <<rows, nextId, users, gw, now, nops>>

(* 4) client_temp_id *)
FpToken(p) ==
  LET q == proc[p]
  IN /\ q.op = "findByAny" /\ q.pc = "fp_token"
     /\ FpLookup(p, q, {r \in rows : r.token = q.token}, "fp_raw")
     /\ UNCHANGED <<rows, nextId, users, gw, now, nops>>

(* 5) the scan of raw, LIMIT 1: some row whose raw names the identifier *)
FpRaw(p) ==
  LET q == proc[p]
      S == {r \in rows : r.rawId = q.token}
  IN /\ q.op = "findByAny" /\ q.pc = "fp_raw"
     /\ \/ \E r \in S :
             /\ RawAccepts(r, q.uid)
             /\ proc' = [proc EXCEPT ![p] =
                  [Done(q, "200", "none", r.id) EXCEPT !.uid = q.uid,
                                                       !.token = q.token]]
        \/ /\ \/ S = {}
              \/ \E r \in S : ~RawAccepts(r, q.uid)
           /\ proc' = [proc EXCEPT ![p] =
                  [Done(q, "200", "none", 0) EXCEPT !.uid = q.uid,
                                                    !.token = q.token]]
     /\ UNCHANGED <<rows, nextId, users, gw, now, nops>>

(* ---------------------------------------------------------------------- *)
(* Lookups after payments: either user posts a pending payment or captures *)
(* order X1, then either user looks rows up, one request after the other   *)
(* ---------------------------------------------------------------------- *)
NextLookup ==
  \/ \E uid \in Users :
        nops < MaxOps /\ StartCreatePending(1, uid, "Pro", "monthly", 0, "t1", NoTime)
  \/ CpUpsert(1)
  \/ CpFind2(1)
  \/ CpInsert(1)
  \/ CpReread(1)
  \/ CpDup(1)
  \/ CpFallback(1)
  \/ \E uid \in Users : nops < MaxOps /\ StartCapture(1, uid, "X1") /\ NoReference("X1")
  \/ CapFind(1)
  \/ CapTryOrder(1)
  \/ CapTryHeur(1)
  \/ CapTryUser(1)
  \/ CapSave(1)
  \/ CapInsert(1)
  \/ CapUser(1)
  \/ CapUserSave(1)
  \/ \E uid \in Users, id \in 1..nextId : nops < MaxOps /\ GetPayment(1, uid, id)
  \/ \E uid \in Users, identifier \in Identifiers :
        nops < MaxOps /\ FindPayment(1, uid, identifier)
  \/ FpOrder(1)
  \/ FpCapture(1)
  \/ FpToken(1)
  \/ FpRaw(1)

SpecLookup == Init /\ [][NextLookup]_vars

(* C38: a row that getPaymentForUser or findPaymentForUserByAny returns to a
   user is not owned by another user, whatever the identifier *)
C38_NoForeignRowReturned ==
  [][\A p \in Procs :
       ( /\ proc'[p] # proc[p]
         /\ proc'[p].op \in {"getPayment", "findByAny"}
         /\ proc'[p].pc = "done"
         /\ proc'[p].ret # 0 )
       => \A r \in rows :
            r.id = proc'[p].ret => r.user_id \in {proc'[p].uid, NoUser}]_vars

(* C39: a capture-related notification whose resource carries an id and no
   order id updates the row holding that id as its capture id, and fetches
   no order from the gateway under that id *)
C39_CaptureIdLookupTaken ==
  [][nops' # nops =>
       \A ev \in Events : \A r \in rows :
         ( /\ ev.type \in captureEventTypes
           /\ ev.order = NoOrder /\ ev.rid \notin {NoOrder, ""}
           /\ r.captureId = ev.rid
           /\ HandleWebhookEvent(1, ev) )
         => /\ proc'[1].pc = "wh_save"
            /\ proc'[1].snap.id = r.id
            /\ proc'[1].err # "gateway"]_vars

====
